---- MODULE Spec2Model ----
(***************************************************************************)
(* A model of the core of KATS (kats/risk, kats/order): the global         *)
(* position lock, the daily kill switch, the drawdown protocol, the margin *)
(* guard, the 9-step risk pipeline, the order state machine, the order     *)
(* tracker, the paper engine and the order manager.                        *)
(*                                                                         *)
(* Conventions.                                                            *)
(*  - Percentages of capital are integers (percent points).                *)
(*  - Money is a whole number of KRW; an average price is the exact        *)
(*    quotient [n, d] (n / d) the code computes with a float division.     *)
(*  - asyncio is single threaded: the code between two suspension points   *)
(*    (an await that really waits: a REST call, a sleep) is one atomic     *)
(*    action.  An uncontended asyncio.Lock is acquired without suspending, *)
(*    and no lock of this code is held across a suspension.                *)
(*  - Each subsystem has its own specification (SpecLock, SpecKill, ...),  *)
(*    over the same variables; a specification leaves the variables of the *)
(*    other subsystems unchanged.                                          *)
(***************************************************************************)
EXTENDS Integers, Sequences, FiniteSets, TLC

VARIABLES
    reservations,   \* GlobalPositionLock._reservations: stock -> [grade, res: strategy -> pct]
    ks,             \* DailyKillSwitch fields
    ks_tasks,       \* the spawned _emergency_shutdown tasks, each at its position
    ks_obs,         \* observations of the kill switch: last check() result, breach seen, callbacks run
    dd,             \* DrawdownProtocol._state
    dd_now,         \* the wall clock read by datetime.now(), in ticks
    dd_obs,         \* observation: what _classify returned in the last evaluate_and_respond
    mg,             \* MarginGuard: cached balance, cache freshness, pending reservations
    mono_ms,        \* time.monotonic() in whole milliseconds
    vi_active,      \* the stocks for which the VI monitor answers is_vi_active = True
    vs_tasks,       \* validate_signal calls suspended in the balance query of step 9
    vs_obs,         \* observation: the outcome of the validate_signal that finished in the last step
    orders,         \* OrderStateMachine._orders, in creation order (the index is the order id)
    open_positions, \* OrderManager._open_positions: stock -> position
    paper_positions,\* PaperTradingEngine._paper_positions: stock -> position
    trade_mode,     \* OrderManager._trade_mode
    block_new_orders, \* OrderManager._block_new_orders (only its setter writes it)
    wall,           \* time.time(), in seconds
    om_tasks,       \* the coroutines of the order manager and tracker suspended in a REST call
    paper_fill,     \* the last execute_virtual_order call on a paper engine of its own
    mg_calls,       \* the MarginGuard.validate_order calls made on the guard directly
    rl,             \* RateLimiter: tokens, last refill, its lock and waiters, the clock
    rq,             \* KISRestClient.request: the call in progress and what it has done
    ws,             \* KISWebSocketClient: the connect() loop, _ws, _subscriptions, the replay
    vim,            \* VIMonitor: _vi_states, _cooling_tasks, the cooling timer tasks
    cache,          \* RealtimeCache: the time of each entry, the VI status, _last_update
    sm,             \* an OrderStateMachine of its own with one listener: orders, calls seen
    pyr             \* PyramidManager: the state of one trade, the last check and its result

lockVars == <<reservations>>
killVars == <<ks, ks_tasks, ks_obs>>
ddVars == <<dd, dd_now, dd_obs>>
riskVars == <<mg, mono_ms, vi_active, vs_tasks, vs_obs>>
orderVars == <<orders, open_positions, paper_positions, trade_mode, block_new_orders,
               wall, om_tasks>>
otherVars == <<paper_fill, mg_calls, rl, rq, ws, vim, cache, sm, pyr>>
vars == <<lockVars, killVars, ddVars, riskVars, orderVars, otherVars>>

----------------------------------------------------------------------------
(* Generic helpers *)

RECURSIVE SumSet(_, _)
\* The sum of f[x] over the finite set S.
SumSet(f, S) ==
    IF S = {} THEN 0
    ELSE LET x == CHOOSE y \in S : TRUE IN f[x] + SumSet(f, S \ {x})

\* The function f without the key k.
DropKey(f, k) == [x \in (DOMAIN f) \ {k} |-> f[x]]

\* The function f with key k set to v (added when absent).
PutKey(f, k, v) == [x \in (DOMAIN f) \cup {k} |-> IF x = k THEN v ELSE f[x]]

EmptyMap == [x \in {} |-> 0]

----------------------------------------------------------------------------
(* Input domains of the model *)

Stocks == {"005930", "000660"}
Strategies == {"VB", "S2"}
\* Grade strings a caller may pass; "Z" stands for any string that is no grade.
Grades == {"A", "B", "C", "D", "Z"}
\* Percentages a caller may ask to reserve.
Pcts == {0, 10, 20}

----------------------------------------------------------------------------
(* GlobalPositionLock (kats/risk/global_position_lock.py) *)

GRADE_HARD_CAP == [g \in {"A", "B", "C", "D"} |->
    CASE g = "A" -> 30 [] g = "B" -> 20 [] g = "C" -> 10 [] OTHER -> 0]

\* _get_cap: the cap of the grade passed by the caller, 0 for an unknown grade.
GetCap(grade) == IF grade \in DOMAIN GRADE_HARD_CAP THEN GRADE_HARD_CAP[grade] ELSE 0

\* StockReservation.total_pct
TotalPct(r) == SumSet(r.res, DOMAIN r.res)

\* check_and_reserve on lock state R: [ok, res].
CheckAndReserve(R, stock, grade, additional_pct, strategy) ==
    LET cap == GetCap(grade)
        current_total == IF stock \in DOMAIN R THEN TotalPct(R[stock]) ELSE 0
        projected == current_total + additional_pct
        old == IF stock \in DOMAIN R THEN R[stock] ELSE [grade |-> grade, res |-> EmptyMap]
        prev == IF strategy \in DOMAIN old.res THEN old.res[strategy] ELSE 0
    IN  IF projected > cap
        THEN [ok |-> FALSE, res |-> R]
        ELSE [ok |-> TRUE,
              res |-> PutKey(R, stock,
                        [old EXCEPT !.res = PutKey(old.res, strategy, prev + additional_pct)])]

\* release on lock state R: [ok, res].  The strategy's entry is popped whole; a
\* popped value of 0.0 returns before the empty StockReservation is removed.
Release(R, stock, strategy) ==
    IF stock \notin DOMAIN R
    THEN [ok |-> FALSE, res |-> R]
    ELSE LET old == R[stock]
             released_pct == IF strategy \in DOMAIN old.res THEN old.res[strategy] ELSE 0
             popped == [old EXCEPT !.res = DropKey(old.res, strategy)]
         IN  IF released_pct = 0
             THEN [ok |-> FALSE, res |-> PutKey(R, stock, popped)]
             ELSE IF DOMAIN popped.res = {}
                  THEN [ok |-> TRUE, res |-> DropKey(R, stock)]
                  ELSE [ok |-> TRUE, res |-> PutKey(R, stock, popped)]

\* clear_all
ClearAll(R) == EmptyMap

\* The percentage strategy holds on stock in lock state R (0 when none).
ReservedPct(R, stock, strategy) ==
    IF stock \in DOMAIN R /\ strategy \in DOMAIN R[stock].res THEN R[stock].res[strategy] ELSE 0

LockInit == reservations = EmptyMap

\* check_and_reserve(stock, grade, pct, strategy)
LockCheckAndReserve(stock, grade, pct, strategy) ==
    reservations' = CheckAndReserve(reservations, stock, grade, pct, strategy).res

\* release(stock, strategy)
LockRelease(stock, strategy) ==
    reservations' = Release(reservations, stock, strategy).res

\* clear_all()
LockClearAll == reservations' = ClearAll(reservations)

LockNext ==
    \/ \E s \in Stocks, g \in Grades, p \in Pcts, x \in Strategies :
            LockCheckAndReserve(s, g, p, x)
    \/ \E s \in Stocks, x \in Strategies : LockRelease(s, x)
    \/ LockClearAll

----------------------------------------------------------------------------
(* DailyKillSwitch (kats/risk/daily_kill_switch.py) *)

\* daily_loss_limit_pct, in percent (the constructor's default 0.03)
DAILY_LOSS_LIMIT_PCT == 3

\* Bound: shutdown tasks spawned and not yet finished.
MaxShutdownTasks == 2

\* Capital values of the model: starting capitals and current capitals.
StartCapitals == {0, 100}
CurrentCapitals == {96, 97, 98, 100}

\* daily_pnl_pct <= -limit, for starting capital > 0
Breach(starting, current) == (current - starting) * 100 <= -(DAILY_LOSS_LIMIT_PCT * starting)

\* check(current_capital) on kill switch state k: [ret, ks, spawn].  The killed
\* flag is not written here: it is written by the spawned task's first step.
KsCheck(k, current_capital) ==
    IF k.is_killed
    THEN [ret |-> FALSE, ks |-> k, spawn |-> FALSE]
    ELSE IF k.starting_capital <= 0
    THEN [ret |-> TRUE, ks |-> k, spawn |-> FALSE]
    ELSE IF Breach(k.starting_capital, current_capital)
    THEN [ret |-> FALSE, ks |-> [k EXCEPT !.kill_reason = "breach"], spawn |-> TRUE]
    ELSE [ret |-> TRUE, ks |-> k, spawn |-> FALSE]

TasksInFlight(t) == t.start + t.cancel + t.notify

KillInit ==
    /\ ks = [is_killed |-> FALSE, starting_capital |-> 0,
             kill_reason |-> "", kill_timestamp |-> FALSE]
    /\ ks_tasks = [start |-> 0, cancel |-> 0, notify |-> 0]
    /\ ks_obs = [last_check |-> "none", breach_seen |-> FALSE,
                 cancel_runs |-> 0, notify_runs |-> 0]

\* check(current_capital), called by anyone
KsCheckCall(current_capital) ==
    LET r == KsCheck(ks, current_capital)
    IN  /\ r.spawn => TasksInFlight(ks_tasks) < MaxShutdownTasks
        /\ ks' = r.ks
        /\ ks_tasks' = IF r.spawn THEN [ks_tasks EXCEPT !.start = @ + 1] ELSE ks_tasks
        /\ ks_obs' = [ks_obs EXCEPT !.last_check = IF r.ret THEN "true" ELSE "false",
                                    !.breach_seen = @ \/ r.spawn]

\* _emergency_shutdown up to its first await: the killed flag, then on_cancel_all
KsShutdownStart ==
    /\ ks_tasks.start > 0
    /\ ks' = [ks EXCEPT !.is_killed = TRUE, !.kill_timestamp = TRUE]
    /\ ks_tasks' = [ks_tasks EXCEPT !.start = @ - 1, !.cancel = @ + 1]
    /\ UNCHANGED ks_obs

\* on_cancel_all returned (or raised: the exception is logged), then on_notify
KsShutdownCancelled ==
    /\ ks_tasks.cancel > 0
    /\ ks_tasks' = [ks_tasks EXCEPT !.cancel = @ - 1, !.notify = @ + 1]
    /\ ks_obs' = [ks_obs EXCEPT !.cancel_runs = @ + 1]
    /\ UNCHANGED ks

\* on_notify returned (or raised): the task ends
KsShutdownNotified ==
    /\ ks_tasks.notify > 0
    /\ ks_tasks' = [ks_tasks EXCEPT !.notify = @ - 1]
    /\ ks_obs' = [ks_obs EXCEPT !.notify_runs = @ + 1]
    /\ UNCHANGED ks

\* reset_daily(new_starting_capital)
KsResetDaily(new_starting_capital) ==
    /\ ks' = [is_killed |-> FALSE, starting_capital |-> new_starting_capital,
              kill_reason |-> "", kill_timestamp |-> FALSE]
    /\ ks_obs' = [last_check |-> "none", breach_seen |-> FALSE,
                  cancel_runs |-> 0, notify_runs |-> 0]
    /\ UNCHANGED ks_tasks

KillNext ==
    \/ \E c \in CurrentCapitals : KsCheckCall(c)
    \/ KsShutdownStart
    \/ KsShutdownCancelled
    \/ KsShutdownNotified
    \/ \E c \in StartCapitals : KsResetDaily(c)

----------------------------------------------------------------------------
(* DrawdownProtocol (kats/risk/drawdown_protocol.py) *)

\* Thresholds, in percent.
DAILY_GREEN_THRESHOLD == 2
DAILY_YELLOW_LOW == 3
MONTHLY_ORANGE_THRESHOLD == 6
CUMULATIVE_RED_THRESHOLD == 10
CUMULATIVE_BLACK_THRESHOLD == 15
RED_RECOVERY_PAPER_WINS == 5
RED_HALT_DAYS == 7

\* The clock is read at three instants of each day: 00:00, 09:00 and 16:30.
\* Tick t is instant t % 3 of day t \div 3.
TicksPerDay == 3
\* Bound: days in a month of the model (day 0 is the first day of a month).
DaysPerMonth == 3
\* Bound: the last tick of the clock.
MaxNow == 24

\* PnL inputs of evaluate_and_respond, in percent.
DailyPnls == {0, -2, -3}
MonthlyPnls == {0, -6}
CumulativePnls == {0, -10, -15}

DrawdownLevels == {"NONE", "GREEN", "YELLOW", "ORANGE", "RED", "BLACK"}

\* _severity
Severity(level) ==
    CASE level = "NONE" -> 0 [] level = "GREEN" -> 1 [] level = "YELLOW" -> 2
      [] level = "ORANGE" -> 3 [] level = "RED" -> 4 [] level = "BLACK" -> 5

\* _classify that looks at the month before the cumulative loss
ClassifyVariant(daily_pnl_pct, monthly_pnl_pct, cumulative_pnl_pct) ==
    IF monthly_pnl_pct <= -MONTHLY_ORANGE_THRESHOLD THEN "ORANGE"
    ELSE IF cumulative_pnl_pct <= -CUMULATIVE_BLACK_THRESHOLD THEN "BLACK"
    ELSE IF cumulative_pnl_pct <= -CUMULATIVE_RED_THRESHOLD THEN "RED"
    ELSE IF daily_pnl_pct <= -DAILY_YELLOW_LOW THEN "YELLOW"
    ELSE IF daily_pnl_pct <= -DAILY_GREEN_THRESHOLD THEN "GREEN"
    ELSE "NONE"

\* _classify
Classify(daily_pnl_pct, monthly_pnl_pct, cumulative_pnl_pct) ==
    IF cumulative_pnl_pct <= -CUMULATIVE_BLACK_THRESHOLD THEN "BLACK"
    ELSE IF cumulative_pnl_pct <= -CUMULATIVE_RED_THRESHOLD THEN "RED"
    ELSE IF monthly_pnl_pct <= -MONTHLY_ORANGE_THRESHOLD THEN "ORANGE"
    ELSE IF daily_pnl_pct <= -DAILY_YELLOW_LOW THEN "YELLOW"
    ELSE IF daily_pnl_pct <= -DAILY_GREEN_THRESHOLD THEN "GREEN"
    ELSE "NONE"

\* An optional datetime: None, or the tick it names.
NoTime == [some |-> FALSE, at |-> 0]
At(t) == [some |-> TRUE, at |-> t]

\* The next 16:30: today's when now is before it, else tomorrow's.
EndOfDay(now) ==
    LET eod == (now \div TicksPerDay) * TicksPerDay + 2
    IN  IF now >= eod THEN eod + TicksPerDay ELSE eod

\* 09:00 of the first day of the next month.
NextMonth(now) ==
    LET month == (now \div TicksPerDay) \div DaysPerMonth
    IN  (month + 1) * DaysPerMonth * TicksPerDay + 1

\* _escalate(level, ..., now) on state st
Escalate(st, level, now) ==
    CASE level = "GREEN" ->
            [st EXCEPT !.level = level, !.position_scale = 50, !.trading_halted = FALSE,
                       !.halt_reason = "GREEN"]
      [] level = "YELLOW" ->
            [st EXCEPT !.level = level, !.position_scale = 0, !.trading_halted = TRUE,
                       !.halt_reason = "YELLOW", !.halt_until = At(EndOfDay(now))]
      [] level = "ORANGE" ->
            [st EXCEPT !.level = level, !.position_scale = 0, !.trading_halted = TRUE,
                       !.halt_reason = "ORANGE", !.halt_until = At(NextMonth(now))]
      [] level = "RED" ->
            [st EXCEPT !.level = level, !.position_scale = 0, !.trading_halted = TRUE,
                       !.paper_mode_forced = TRUE, !.consecutive_paper_wins = 0,
                       !.halt_until = At(now + RED_HALT_DAYS * TicksPerDay),
                       !.halt_reason = "RED"]
      [] level = "BLACK" ->
            [st EXCEPT !.level = level, !.position_scale = 0, !.trading_halted = TRUE,
                       !.paper_mode_forced = TRUE, !.strategy_review_required = TRUE,
                       !.halt_until = NoTime, !.halt_reason = "BLACK"]
      [] OTHER -> [st EXCEPT !.level = level]

\* DrawdownState(), also the result of _reset_to_none apart from last_evaluated
DrawdownState0 ==
    [level |-> "NONE", position_scale |-> 100, trading_halted |-> FALSE,
     halt_reason |-> "", halt_until |-> NoTime, paper_mode_forced |-> FALSE,
     consecutive_paper_wins |-> 0, strategy_review_required |-> FALSE,
     last_evaluated |-> NoTime]

\* _reset_to_none
ResetToNone(st) == [DrawdownState0 EXCEPT !.last_evaluated = st.last_evaluated]

\* "Only escalate": the comparison of the new level with the current one.
EscalatesVariant(new_level, level) == new_level # level

Escalates(new_level, level) == Severity(new_level) > Severity(level)

\* The halt window taken to end one tick early
StillHaltedVariant(st, now) == st.halt_until.some /\ now + 1 < st.halt_until.at

\* Whether evaluate_and_respond returns before classifying: a timed halt is running.
StillHalted(st, now) == st.halt_until.some /\ now < st.halt_until.at

\* evaluate_and_respond that forgets the level it is at
EvaluateAndRespondVariant(st, daily_pnl_pct, monthly_pnl_pct, cumulative_pnl_pct, now) ==
    Escalate([DrawdownState0 EXCEPT !.last_evaluated = At(now)],
             Classify(daily_pnl_pct, monthly_pnl_pct, cumulative_pnl_pct), now)

\* evaluate_and_respond on state st at time now: the state after it.
EvaluateAndRespond(st, daily_pnl_pct, monthly_pnl_pct, cumulative_pnl_pct, now) ==
    LET st1 == [st EXCEPT !.last_evaluated = At(now)]
        new_level == Classify(daily_pnl_pct, monthly_pnl_pct, cumulative_pnl_pct)
    IN  IF StillHalted(st1, now) THEN st1
        ELSE IF Escalates(new_level, st1.level) THEN Escalate(st1, new_level, now)
        ELSE st1

\* record_paper_trade_result that keeps the counter at a loss
RecordPaperTradeResultVariant(st, win) ==
    IF st.level # "RED" THEN st
    ELSE LET wins == IF win THEN st.consecutive_paper_wins + 1 ELSE st.consecutive_paper_wins
         IN  IF wins >= RED_RECOVERY_PAPER_WINS THEN ResetToNone(st)
             ELSE [st EXCEPT !.consecutive_paper_wins = wins]

\* record_paper_trade_result(win) on state st
RecordPaperTradeResult(st, win) ==
    IF st.level # "RED" THEN st
    ELSE LET wins == IF win THEN st.consecutive_paper_wins + 1 ELSE 0
         IN  IF wins >= RED_RECOVERY_PAPER_WINS THEN ResetToNone(st)
             ELSE [st EXCEPT !.consecutive_paper_wins = wins]

\* reset_daily on state st
DdResetDailyState(st) == IF st.level \in {"GREEN", "YELLOW"} THEN ResetToNone(st) ELSE st

DdInit ==
    /\ dd = DrawdownState0
    /\ dd_now = 0
    /\ dd_obs = "-"

\* evaluate_and_respond(daily, monthly, cumulative)
DdEvaluateAndRespond(d, m, c) ==
    /\ dd' = EvaluateAndRespond(dd, d, m, c, dd_now)
    /\ dd_obs' = IF StillHalted(dd, dd_now) THEN "-" ELSE Classify(d, m, c)
    /\ UNCHANGED dd_now

\* record_paper_trade_result(win)
DdRecordPaperTradeResult(win) ==
    /\ dd' = RecordPaperTradeResult(dd, win)
    /\ dd_obs' = "-"
    /\ UNCHANGED dd_now

\* force_resume()
DdForceResume ==
    /\ dd' = ResetToNone(dd)
    /\ dd_obs' = "-"
    /\ UNCHANGED dd_now

\* reset_daily()
DdResetDaily ==
    /\ dd' = DdResetDailyState(dd)
    /\ dd_obs' = "-"
    /\ UNCHANGED dd_now

\* reset_monthly()
DdResetMonthly ==
    /\ dd' = IF dd.level = "ORANGE" THEN ResetToNone(dd) ELSE dd
    /\ dd_obs' = "-"
    /\ UNCHANGED dd_now

\* Time passes.
DdTick ==
    /\ dd_now < MaxNow
    /\ dd_now' = dd_now + 1
    /\ UNCHANGED <<dd, dd_obs>>

DdNext ==
    \/ \E d \in DailyPnls, m \in MonthlyPnls, c \in CumulativePnls : DdEvaluateAndRespond(d, m, c)
    \/ \E win \in BOOLEAN : DdRecordPaperTradeResult(win)
    \/ DdForceResume
    \/ DdResetDaily
    \/ DdResetMonthly
    \/ DdTick

----------------------------------------------------------------------------
(* PositionSizer (kats/risk/position_sizer.py) *)

Min2(a, b) == IF a < b THEN a ELSE b
Max2(a, b) == IF a > b THEN a ELSE b

Regimes == {"STRONG_BULL", "BULL", "SIDEWAYS", "BEAR", "STRONG_BEAR"}

\* RISK_BY_REGIME, in 1/1000 of capital
RISK_BY_REGIME == [r \in Regimes |->
    CASE r = "STRONG_BULL" -> 20 [] r = "BULL" -> 18 [] r = "SIDEWAYS" -> 12
      [] r = "BEAR" -> 8 [] OTHER -> 5]

\* GRADE_LIMIT, in percent of capital
GRADE_LIMIT == [g \in {"A", "B", "C"} |-> CASE g = "A" -> 30 [] g = "B" -> 20 [] OTHER -> 10]

\* CONFIDENCE_MULTIPLIER.get(confidence, 0.50), in quarters
ConfidenceMultiplier(confidence) ==
    CASE confidence = 5 -> 4 [] confidence = 4 -> 3 [] OTHER -> 2

\* StockGrade(grade_str), C when the string is no grade
GradeEnum(grade_str) == IF grade_str \in {"A", "B", "C", "D"} THEN grade_str ELSE "C"

\* calculate.  Amounts are whole KRW; position_pct is in percent of capital
\* (the code keeps the fraction rounded to 6 places and multiplies by 100:
\* the same number for the capitals and prices of the model).
Calculate(total_capital, regime, entry_price, stop_loss, grade, confidence) ==
    IF confidence <= 2 \/ stop_loss >= entry_price \/ grade = "D"
    THEN [accepted |-> FALSE, position_amount |-> 0, position_pct |-> 0, quantity |-> 0]
    ELSE LET grade_limit_pct == IF grade \in DOMAIN GRADE_LIMIT THEN GRADE_LIMIT[grade] ELSE 10
             raw_amount == (total_capital * RISK_BY_REGIME[regime]
                                * ConfidenceMultiplier(confidence) * entry_price)
                            \div (4000 * (entry_price - stop_loss))
             grade_cap_amount == (total_capital * grade_limit_pct) \div 100
             capped == Max2(Min2(raw_amount, grade_cap_amount), 0)
             quantity == IF entry_price > 0 THEN capped \div entry_price ELSE 0
             position_amount == quantity * entry_price
             position_pct == IF total_capital > 0
                             THEN (position_amount * 100) \div total_capital ELSE 0
         IN  [accepted |-> TRUE, position_amount |-> position_amount,
              position_pct |-> position_pct, quantity |-> quantity]

----------------------------------------------------------------------------
(* GradeAllocator (kats/risk/grade_allocator.py) *)

\* REGIME_ALLOCATION, in percent of capital
REGIME_ALLOCATION == [r \in Regimes |->
    CASE r = "STRONG_BULL" -> [A |-> 40, B |-> 30, C |-> 10, cash_pct |-> 20]
      [] r = "BULL"        -> [A |-> 35, B |-> 25, C |-> 10, cash_pct |-> 30]
      [] r = "SIDEWAYS"    -> [A |-> 25, B |-> 15, C |-> 5, cash_pct |-> 55]
      [] r = "BEAR"        -> [A |-> 15, B |-> 10, C |-> 0, cash_pct |-> 75]
      [] OTHER             -> [A |-> 10, B |-> 0, C |-> 0, cash_pct |-> 90]]

SECTOR_MAX_PCT == 40

RECURSIVE SumPositionPct(_, _, _)
\* The sum of position_pct over the positions whose field has the value
\* (_sum_grade_pct, _sum_sector_pct), over all of them for field "all".
SumPositionPct(positions, fld, value) ==
    IF positions = <<>> THEN 0
    ELSE LET p == Head(positions)
             counts == fld = "all" \/ p[fld] = value
         IN  (IF counts THEN p.position_pct ELSE 0) + SumPositionPct(Tail(positions), fld, value)

\* validate_allocation: TRUE when the signal fits the grade limit, the sector
\* cap and the cash reserve of the regime.
ValidateAllocation(grade_str, position_pct, sector, current_positions, regime) ==
    LET alloc == REGIME_ALLOCATION[regime]
        grade_limit_pct == IF grade_str \in {"A", "B", "C"} THEN alloc[grade_str] ELSE 0
    IN  /\ SumPositionPct(current_positions, "grade", grade_str) + position_pct
                <= grade_limit_pct
        /\ SumPositionPct(current_positions, "sector", sector) + position_pct <= SECTOR_MAX_PCT
        /\ 100 - (SumPositionPct(current_positions, "all", "") + position_pct) >= alloc.cash_pct

----------------------------------------------------------------------------
(* MarginGuard (kats/risk/margin_guard.py) *)

\* Fee rates, in 1/100000
COMMISSION_RATE == 15
TAX_RATE == 180
TOTAL_FEE_RATE == COMMISSION_RATE * 2 + TAX_RATE

\* Bound: the last millisecond of the monotonic clock.
MaxMs == 1

\* What get_balance_fn may return: a balance in KRW, or an exception.
Balances == {0, 2500}
BalanceResults == {[ok |-> TRUE, balance |-> b] : b \in Balances} \cup {[ok |-> FALSE, balance |-> 0]}

\* gross + int(gross * _TOTAL_FEE_RATE)
RequiredAmount(quantity, price) ==
    LET gross_amount == quantity * price
    IN  gross_amount + (gross_amount * TOTAL_FEE_RATE) \div 100000

RECURSIVE SumAmounts(_)
\* sum(self._pending_reservations.values())
SumAmounts(pending) ==
    IF pending = <<>> THEN 0 ELSE Head(pending).amount + SumAmounts(Tail(pending))

\* The cached balance with the pending reservations left out of account
AvailableCashVariant(m) == Max2(0, m.cached_balance)

\* max(0, cached_balance - total_reserved)
AvailableCash(m) == Max2(0, m.cached_balance - SumAmounts(m.pending))

\* self._pending_reservations[key] = amount: a dict keeps the place of a key
\* it already holds.
PutReservation(pending, key, amount) ==
    IF \E i \in 1..Len(pending) : pending[i].key = key
    THEN [i \in 1..Len(pending) |->
            IF pending[i].key = key THEN [key |-> key, amount |-> amount] ELSE pending[i]]
    ELSE Append(pending, [key |-> key, amount |-> amount])

\* release_reservation(amount): the first reservation of exactly that amount,
\* else the oldest one.
ReleaseReservation(pending, amount) ==
    IF pending = <<>> THEN pending
    ELSE IF \E i \in 1..Len(pending) : pending[i].amount = amount
    THEN LET i == CHOOSE k \in 1..Len(pending) :
                        /\ pending[k].amount = amount
                        /\ \A j \in 1..(k - 1) : pending[j].amount # amount
         IN  SubSeq(pending, 1, i - 1) \o SubSeq(pending, i + 1, Len(pending))
    ELSE Tail(pending)

\* The part of validate_order after the balance is known: [ok, mg].
ReserveIfAvailable(m, stock_code, required_amount, now_ms) ==
    IF AvailableCash(m) < required_amount
    THEN [ok |-> FALSE, mg |-> m]
    ELSE [ok |-> TRUE,
          mg |-> [m EXCEPT !.pending = PutReservation(@, <<stock_code, now_ms>>, required_amount)]]

----------------------------------------------------------------------------
(* RiskManager (kats/risk/risk_manager.py) *)

\* Bound: validate_signal calls suspended at the same time.
MaxValidations == 1
TaskIds == 1..MaxValidations

\* Signals and call contexts of the model.  With a capital of 10000 and an
\* entry price of 1000 every share is 10 percent of the capital.
RiskStocks == {"005930"}
RiskSignals ==
    [stock_code : RiskStocks, action : {"BUY", "SELL"}, strategy_code : Strategies,
     entry_price : {1000}, stop_loss : {900}, grade : {"B"}, confidence : {2, 5},
     sector : {"IT"}]
RiskContexts ==
    [current_positions :
        {<<>>, <<[stock_code |-> "000660", grade |-> "B", position_pct |-> 20, sector |-> "IT"]>>},
     regime : {"BULL"}, total_capital : {10000},
     daily_pnl_pct : {0}, monthly_pnl_pct : {0}, cumulative_pnl_pct : {0},
     current_capital : {0}]

IdleTask == [pc |-> "idle", stock_code |-> "", strategy_code |-> "",
             required_amount |-> 0, position_pct |-> 0]

\* The result of the part of validate_signal that runs without suspending.
\* step: 0 passed, 1..9 the rejecting step, 10 suspended in the balance query
\* of step 9.  st holds the state of the sub-modules after it.
Outcome(step, st, spawn, checked, position_pct, required_amount, quantity) ==
    [step |-> step, st |-> st, spawn |-> spawn, checked |-> checked,
     position_pct |-> position_pct, required_amount |-> required_amount,
     quantity |-> quantity]

\* sizing after "Apply drawdown position scale" (scale in percent)
ApplyScale(sizing, scale) ==
    IF scale < 100
    THEN [sizing EXCEPT !.quantity = (@ * scale) \div 100,
                        !.position_amount = (@ * scale) \div 100,
                        !.position_pct = (@ * scale) \div 100]
    ELSE sizing

\* validate_signal up to its first suspension, on st = [dd, ks, lock, mg] read
\* at env = [now, ms, vi].
ValidateSignal(signal, ctx, st, env) ==
    LET stock_code == signal.stock_code
        strategy_code == signal.strategy_code
        grade_str == signal.grade
        sizing1 == Calculate(ctx.total_capital, ctx.regime, signal.entry_price,
                             signal.stop_loss, GradeEnum(grade_str), signal.confidence)
        dd1 == EvaluateAndRespond(st.dd, ctx.daily_pnl_pct, ctx.monthly_pnl_pct,
                                  ctx.cumulative_pnl_pct, env.now)
        sizing == ApplyScale(sizing1, dd1.position_scale)
        effective_capital == IF ctx.current_capital > 0 THEN ctx.current_capital
                             ELSE ctx.total_capital
        kr == KsCheck(st.ks, effective_capital)
        st2 == [st EXCEPT !.dd = dd1]
        st3 == [st2 EXCEPT !.ks = kr.ks]
        lr == CheckAndReserve(st.lock, stock_code, grade_str, sizing.position_pct, strategy_code)
        st7 == [st3 EXCEPT !.lock = lr.res]
        released == [st3 EXCEPT !.lock = Release(lr.res, stock_code, strategy_code).res]
        required == RequiredAmount(sizing.quantity, signal.entry_price)
        mr == ReserveIfAvailable(st.mg, stock_code, required, env.ms)
        pct == sizing.position_pct
        qty == sizing.quantity
    IN  IF ~sizing1.accepted THEN Outcome(1, st, FALSE, FALSE, 0, 0, 0)
        ELSE IF dd1.trading_halted THEN Outcome(2, st2, FALSE, FALSE, pct, 0, qty)
        ELSE IF ~kr.ret THEN Outcome(3, st3, kr.spawn, TRUE, pct, 0, qty)
        ELSE IF ~ValidateAllocation(grade_str, pct, signal.sector,
                                    ctx.current_positions, ctx.regime)
             THEN Outcome(4, st3, FALSE, TRUE, pct, 0, qty)
        ELSE IF ~lr.ok THEN Outcome(7, st3, FALSE, TRUE, pct, 0, qty)
        ELSE IF stock_code \in env.vi THEN Outcome(8, released, FALSE, TRUE, pct, 0, qty)
        ELSE IF signal.action = "SELL" THEN Outcome(0, st7, FALSE, TRUE, pct, 0, qty)
        ELSE IF ~st.mg.fresh THEN Outcome(10, st7, FALSE, TRUE, pct, required, qty)
        ELSE IF ~mr.ok THEN Outcome(9, released, FALSE, TRUE, pct, required, qty)
        ELSE Outcome(0, [st7 EXCEPT !.mg = mr.mg], FALSE, TRUE, pct, required, qty)

\* The rest of validate_signal once get_balance_fn has answered: [ok, lock, mg].
ValidateSignalResume(task, result, lock, m, now_ms) ==
    LET m1 == IF result.ok
              THEN [m EXCEPT !.cached_balance = result.balance, !.fresh = TRUE]
              ELSE m
        mr == ReserveIfAvailable(m1, task.stock_code, task.required_amount, now_ms)
    IN  IF mr.ok THEN [ok |-> TRUE, lock |-> lock, mg |-> mr.mg]
        ELSE [ok |-> FALSE, mg |-> m1,
              lock |-> Release(lock, task.stock_code, task.strategy_code).res]

\* Whether going from lock state R to R2 took exactly removed_pct from what the
\* strategy holds on the stock (as far as it held that much) and nothing else.
OnlyRemoved(R, R2, stock_code, strategy_code, removed_pct) ==
    \A s \in Stocks, x \in Strategies :
        ReservedPct(R2, s, x) =
            IF s = stock_code /\ x = strategy_code
            THEN Max2(ReservedPct(R, s, x) - removed_pct, 0)
            ELSE ReservedPct(R, s, x)

NoObs == [step |-> -1, kept |-> TRUE]

RiskInit ==
    /\ mg = [cached_balance |-> 0, fresh |-> FALSE, pending |-> <<>>]
    /\ mono_ms = 0
    /\ vi_active = {}
    /\ vs_tasks = [t \in TaskIds |-> IdleTask]
    /\ vs_obs = NoObs

\* What the drawdown observation becomes when evaluate_and_respond is called.
DdObsAfter(st, ctx, now) ==
    IF StillHalted(st, now) THEN "-"
    ELSE Classify(ctx.daily_pnl_pct, ctx.monthly_pnl_pct, ctx.cumulative_pnl_pct)

\* The effect of the synchronous part of a validate_signal call on the
\* sub-modules; lock and m are the lock and margin guard states its caller
\* ends with.
ApplyOutcome(r, ctx, lock, m) ==
    /\ r.spawn => TasksInFlight(ks_tasks) < MaxShutdownTasks
    /\ dd' = r.st.dd
    /\ dd_obs' = IF r.step = 1 THEN dd_obs ELSE DdObsAfter(dd, ctx, dd_now)
    /\ ks' = r.st.ks
    /\ ks_tasks' = IF r.spawn THEN [ks_tasks EXCEPT !.start = @ + 1] ELSE ks_tasks
    /\ ks_obs' = IF r.checked
                 THEN [ks_obs EXCEPT !.last_check = IF r.step = 3 THEN "false" ELSE "true",
                                     !.breach_seen = @ \/ r.spawn]
                 ELSE ks_obs
    /\ reservations' = lock
    /\ mg' = m

\* validate_signal(signal, ...) called: it runs to its end, or to the balance
\* query of step 9.
VsStart(signal, ctx) ==
    LET st == [dd |-> dd, ks |-> ks, lock |-> reservations, mg |-> mg]
        env == [now |-> dd_now, ms |-> mono_ms, vi |-> vi_active]
        r == ValidateSignal(signal, ctx, st, env)
        idle == {t \in TaskIds : vs_tasks[t].pc = "idle"}
        t == CHOOSE i \in idle : \A j \in idle : i <= j
    IN  /\ r.step = 10 => idle # {}
        /\ ApplyOutcome(r, ctx, r.st.lock, r.st.mg)
        /\ vs_tasks' = IF r.step = 10
                       THEN [vs_tasks EXCEPT ![t] =
                                [pc |-> "balance", stock_code |-> signal.stock_code,
                                 strategy_code |-> signal.strategy_code,
                                 required_amount |-> r.required_amount,
                                 position_pct |-> r.position_pct]]
                       ELSE vs_tasks
        /\ vs_obs' = IF r.step = 10 THEN NoObs
                     ELSE [step |-> r.step,
                           kept |-> r.step \in {8, 9} =>
                                        OnlyRemoved(reservations, r.st.lock, "", "", 0)]
        /\ UNCHANGED <<dd_now, mono_ms, vi_active>>

\* get_balance_fn answers the call suspended as task t, which runs to its end.
VsBalanceReturned(t, result) ==
    LET task == vs_tasks[t]
        r == ValidateSignalResume(task, result, reservations, mg, mono_ms)
    IN  /\ task.pc = "balance"
        /\ reservations' = r.lock
        /\ mg' = r.mg
        /\ vs_tasks' = [vs_tasks EXCEPT ![t] = IdleTask]
        /\ vs_obs' = IF r.ok THEN [step |-> 0, kept |-> TRUE]
                     ELSE [step |-> 9,
                           kept |-> OnlyRemoved(reservations, r.lock, task.stock_code,
                                                task.strategy_code, task.position_pct)]
        /\ UNCHANGED <<killVars, ddVars, mono_ms, vi_active>>

\* on_position_closed(stock_code, strategy_code, fill_amount)
RmOnPositionClosed(stock_code, strategy_code, fill_amount) ==
    /\ reservations' = Release(reservations, stock_code, strategy_code).res
    /\ mg' = IF fill_amount > 0
             THEN [mg EXCEPT !.pending = ReleaseReservation(@, fill_amount)]
             ELSE mg
    /\ UNCHANGED <<killVars, ddVars, mono_ms, vi_active, vs_tasks>>
    /\ vs_obs' = NoObs

\* reset_daily(new_starting_capital)
RmResetDaily(new_starting_capital) ==
    /\ KsResetDaily(new_starting_capital)
    /\ dd' = DdResetDailyState(dd)
    /\ dd_obs' = "-"
    /\ reservations' = ClearAll(reservations)
    /\ mg' = [mg EXCEPT !.pending = <<>>]
    /\ UNCHANGED <<dd_now, mono_ms, vi_active, vs_tasks>>
    /\ vs_obs' = NoObs

\* set_balance(balance)
MgSetBalance(balance) ==
    /\ mg' = [mg EXCEPT !.cached_balance = balance, !.fresh = TRUE]
    /\ UNCHANGED <<lockVars, killVars, ddVars, mono_ms, vi_active, vs_tasks>>
    /\ vs_obs' = NoObs

\* More than _BALANCE_CACHE_TTL_SEC have passed since the cache was filled.
MgCacheExpires ==
    /\ mg.fresh
    /\ mg' = [mg EXCEPT !.fresh = FALSE]
    /\ UNCHANGED <<lockVars, killVars, ddVars, mono_ms, vi_active, vs_tasks>>
    /\ vs_obs' = NoObs

\* A millisecond passes.
MonoTick ==
    /\ mono_ms < MaxMs
    /\ mono_ms' = mono_ms + 1
    /\ UNCHANGED <<lockVars, killVars, ddVars, mg, vi_active, vs_tasks>>
    /\ vs_obs' = NoObs

\* The exchange starts or ends a volatility interruption on a stock.
ViSet(stock_code, active) ==
    /\ vi_active' = IF active THEN vi_active \cup {stock_code} ELSE vi_active \ {stock_code}
    /\ vi_active' # vi_active
    /\ UNCHANGED <<lockVars, killVars, ddVars, mg, mono_ms, vs_tasks>>
    /\ vs_obs' = NoObs

RiskNext ==
    \/ \E signal \in RiskSignals, ctx \in RiskContexts : VsStart(signal, ctx)
    \/ \E t \in TaskIds, result \in BalanceResults : VsBalanceReturned(t, result)
    \/ \E s \in RiskStocks, x \in Strategies, a \in {0, 1002} : RmOnPositionClosed(s, x, a)
    \/ RmResetDaily(10000)
    \/ \E b \in Balances : MgSetBalance(b)
    \/ MgCacheExpires
    \/ MonoTick
    \/ \E s \in RiskStocks, active \in BOOLEAN : ViSet(s, active)

----------------------------------------------------------------------------
(* OrderStateMachine (kats/order/order_state_machine.py) *)

OrderStates == {"CREATED", "SUBMITTED", "PARTIAL_FILLED", "FILLED", "CANCEL_REQUESTED",
                "CANCELLED", "AMEND_REQUESTED", "REJECTED", "EXPIRED", "ERROR"}

VALID_TRANSITIONS ==
    [s \in {"CREATED", "SUBMITTED", "PARTIAL_FILLED", "CANCEL_REQUESTED", "AMEND_REQUESTED"} |->
        CASE s = "CREATED" -> {"SUBMITTED", "REJECTED"}
          [] s = "SUBMITTED" -> {"PARTIAL_FILLED", "FILLED", "CANCEL_REQUESTED", "REJECTED", "ERROR"}
          [] s = "PARTIAL_FILLED" -> {"FILLED", "CANCEL_REQUESTED", "AMEND_REQUESTED"}
          [] s = "CANCEL_REQUESTED" -> {"CANCELLED", "FILLED"}
          [] OTHER -> {"SUBMITTED", "REJECTED"}]

TERMINAL_STATES == {"FILLED", "CANCELLED", "REJECTED", "EXPIRED", "ERROR"}

\* Bound: the orders the state machine holds.
MaxOrders == 2

\* No metadata, and the keys of a metadata dict the model tracks.
NoMeta == [k \in {} |-> 0]

\* create_order(order_id, order_data) at time now; the id is the index.
\* remaining_quantity = -1 stands for an order without that key, which only
\* the metadata of a fill writes.
CreateOrder(O, order_data, now) ==
    Append(O, [state |-> "CREATED", created_at |-> now, history |-> <<"CREATED">>,
               stock_code |-> order_data.stock_code, order_type |-> order_data.order_type,
               quantity |-> order_data.quantity, price |-> order_data.price,
               strategy_code |-> order_data.strategy_code,
               filled_quantity |-> 0, remaining_quantity |-> -1, fill_price |-> 0,
               broker_order_no |-> FALSE, amended |-> FALSE])

\* transition without the check of the allowed edges: only an order in a
\* terminal state refuses.
TransitionVariant(O, order_id, new_state, metadata) ==
    IF O[order_id].state \in TERMINAL_STATES
    THEN [ok |-> FALSE, orders |-> O]
    ELSE [ok |-> TRUE,
          orders |-> [O EXCEPT ![order_id] =
                        [k \in DOMAIN @ |->
                            IF k = "state" THEN new_state
                            ELSE IF k = "history" THEN Append(@.history, new_state)
                            ELSE IF k \in DOMAIN metadata THEN metadata[k]
                            ELSE @[k]]]]

\* transition(order_id, new_state, metadata): [ok, orders]; ok = FALSE stands
\* for InvalidStateTransition.  Of the metadata, the keys the order record
\* of the model has are merged into the order.
Transition(O, order_id, new_state, metadata) ==
    LET old_state == O[order_id].state
    IN  IF \/ old_state \in TERMINAL_STATES
           \/ old_state \notin DOMAIN VALID_TRANSITIONS
           \/ new_state \notin VALID_TRANSITIONS[old_state]
        THEN [ok |-> FALSE, orders |-> O]
        ELSE [ok |-> TRUE,
              orders |-> [O EXCEPT ![order_id] =
                            [k \in DOMAIN @ |->
                                IF k = "state" THEN new_state
                                ELSE IF k = "history" THEN Append(@.history, new_state)
                                ELSE IF k \in DOMAIN metadata
                                        /\ k \notin {"order_id", "created_at"}
                                THEN metadata[k]
                                ELSE @[k]]]]

\* get_pending_orders, as the sequence of their ids
PendingIds(O) ==
    SelectSeq([i \in 1..Len(O) |-> i], LAMBDA i : O[i].state \in {"SUBMITTED", "PARTIAL_FILLED"})

----------------------------------------------------------------------------
(* PaperTradingEngine (kats/order/paper_trading.py) *)

\* MAX_INSTANT_FILL_RATIO and MARKET_IMPACT_COEFF in percent, BASE_SLIPPAGE_PCT
\* in 1/1000 of a percent
MAX_INSTANT_FILL_RATIO == 20
MARKET_IMPACT_COEFF == 5
BASE_SLIPPAGE_PCT == 100

\* The quotient n / d, and the number 0.
Rat(n, d) == [n |-> n, d |-> d]
Zero == Rat(0, 1)

\* What the realtime cache answers for the best quote of the side the order
\* takes: nothing, or a price and a volume.
NoBook == [present |-> FALSE, best_price |-> 0, best_volume |-> 0]
OrderBooks == {NoBook} \cup
    {[present |-> TRUE, best_price |-> 1000, best_volume |-> v] : v \in {0, 5, 10}}

\* _update_paper_account(order, fill_price, fill_quantity)
UpdatePaperAccount(P, order, fill_price, fill_quantity) ==
    LET stock_code == order.stock_code
        position == IF stock_code \in DOMAIN P THEN P[stock_code]
                    ELSE [quantity |-> 0, avg_price |-> Zero, total_cost |-> 0]
        trade_amount == fill_price * fill_quantity
        new_qty == position.quantity + fill_quantity
        new_cost == position.total_cost + trade_amount
        left == position.quantity - fill_quantity
    IN  IF order.order_type = "BUY"
        THEN PutKey(P, stock_code,
                    [quantity |-> new_qty, total_cost |-> new_cost,
                     avg_price |-> IF new_qty > 0 THEN Rat(new_cost, new_qty) ELSE Zero])
        ELSE IF order.order_type = "SELL"
        THEN PutKey(P, stock_code,
                    IF left > 0
                    THEN [quantity |-> left, avg_price |-> position.avg_price,
                          total_cost |-> (position.avg_price.n * left) \div position.avg_price.d]
                    ELSE [quantity |-> left, avg_price |-> Zero, total_cost |-> 0])
        ELSE PutKey(P, stock_code, position)

\* execute_virtual_order without the floor of one share on a partial fill
ExecuteVirtualOrderVariant(P, order, book) ==
    LET quantity == order.quantity
        best_price == book.best_price
        best_volume == book.best_volume
        partial == quantity * 100 > MAX_INSTANT_FILL_RATIO * best_volume
        q20 == (best_volume * MAX_INSTANT_FILL_RATIO) \div 100
        fill_quantity == IF partial THEN q20 ELSE quantity
        market_impact_pct == IF partial
                             THEN (((quantity * 100000) \div best_volume
                                        - MAX_INSTANT_FILL_RATIO * 1000) * MARKET_IMPACT_COEFF)
                                  \div 100
                             ELSE 0
        total_slippage_pct == BASE_SLIPPAGE_PCT + market_impact_pct
        fill_price == IF order.order_type = "BUY"
                      THEN (best_price * (100000 + total_slippage_pct)) \div 100000
                      ELSE (best_price * (100000 - total_slippage_pct)) \div 100000
        \* round(fill_price, 2), in 1/100 KRW
        fill_price_x100 ==
            IF order.order_type = "BUY"
            THEN (best_price * (100000 + total_slippage_pct) + 500) \div 1000
            ELSE (best_price * (100000 - total_slippage_pct) + 500) \div 1000
    IN  IF ~book.present \/ best_price <= 0 \/ best_volume <= 0
        THEN [success |-> FALSE, fill_price |-> 0, fill_price_x100 |-> 0, fill_quantity |-> 0,
              remaining_quantity |-> quantity, paper |-> P]
        ELSE [success |-> TRUE, fill_price |-> fill_price, fill_price_x100 |-> fill_price_x100,
              fill_quantity |-> fill_quantity,
              remaining_quantity |-> quantity - fill_quantity,
              paper |-> UpdatePaperAccount(P, order, fill_price, fill_quantity)]

\* execute_virtual_order(order) against the quote book: the fill and the
\* paper account after it.
ExecuteVirtualOrder(P, order, book) ==
    LET quantity == order.quantity
        best_price == book.best_price
        best_volume == book.best_volume
        partial == quantity * 100 > MAX_INSTANT_FILL_RATIO * best_volume
        q20 == (best_volume * MAX_INSTANT_FILL_RATIO) \div 100
        fill_quantity == IF partial THEN (IF q20 < 1 THEN 1 ELSE q20) ELSE quantity
        market_impact_pct == IF partial
                             THEN (((quantity * 100000) \div best_volume
                                        - MAX_INSTANT_FILL_RATIO * 1000) * MARKET_IMPACT_COEFF)
                                  \div 100
                             ELSE 0
        total_slippage_pct == BASE_SLIPPAGE_PCT + market_impact_pct
        fill_price == IF order.order_type = "BUY"
                      THEN (best_price * (100000 + total_slippage_pct)) \div 100000
                      ELSE (best_price * (100000 - total_slippage_pct)) \div 100000
        \* round(fill_price, 2), in 1/100 KRW
        fill_price_x100 ==
            IF order.order_type = "BUY"
            THEN (best_price * (100000 + total_slippage_pct) + 500) \div 1000
            ELSE (best_price * (100000 - total_slippage_pct) + 500) \div 1000
    IN  IF ~book.present \/ best_price <= 0 \/ best_volume <= 0
        THEN [success |-> FALSE, fill_price |-> 0, fill_price_x100 |-> 0, fill_quantity |-> 0,
              remaining_quantity |-> quantity, paper |-> P]
        ELSE [success |-> TRUE, fill_price |-> fill_price, fill_price_x100 |-> fill_price_x100,
              fill_quantity |-> fill_quantity,
              remaining_quantity |-> quantity - fill_quantity,
              paper |-> UpdatePaperAccount(P, order, fill_price, fill_quantity)]

----------------------------------------------------------------------------
(* OrderManager (kats/order/order_manager.py) *)

\* _update_open_position(order_id, order_data, fill_result)
UpdateOpenPosition(OP, order_data, fill_price, fill_quantity) ==
    LET stock_code == order_data.stock_code
        existing == OP[stock_code]
        new_qty == existing.quantity + fill_quantity
        new_cost == existing.total_cost + fill_price * fill_quantity
    IN  IF stock_code \in DOMAIN OP
        THEN PutKey(OP, stock_code,
                    [quantity |-> new_qty, total_cost |-> new_cost,
                     avg_entry_price |-> IF new_qty > 0 THEN Rat(new_cost, new_qty) ELSE Zero])
        ELSE PutKey(OP, stock_code,
                    [quantity |-> fill_quantity, avg_entry_price |-> Rat(fill_price, 1),
                     total_cost |-> fill_price * fill_quantity])

\* _reduce_open_position(stock_code, sell_quantity, sell_price)
ReduceOpenPosition(OP, stock_code, sell_quantity) ==
    IF stock_code \notin DOMAIN OP THEN OP
    ELSE LET position == OP[stock_code]
             left == position.quantity - sell_quantity
         IN  IF left <= 0 THEN DropKey(OP, stock_code)
             ELSE PutKey(OP, stock_code,
                         [position EXCEPT !.quantity = left,
                            !.total_cost = (position.avg_entry_price.n * left)
                                            \div position.avg_entry_price.d])

\* risk_manager.validate_order(signal), of RiskManagerProtocol: the 9-step
\* pipeline on the signal; approved when it passes, with the sized quantity.
ValidateOrder(signal, ctx, st, env) == ValidateSignal(signal, ctx, st, env)

\* margin_guard.check_margin(order_type, amount, locked_capital), of
\* MarginGuardProtocol: the cash was checked and reserved by step 9.
CheckMargin(order_type, amount, locked_capital) == [sufficient |-> TRUE]

\* risk_manager.on_order_filled(fill_data), of RiskManagerProtocol: releases
\* the lock of the strategy on the stock and a cash reservation, as
\* on_position_closed does: [lock, mg].
OnOrderFilled(lock, m, fill_data) ==
    LET fill_amount == fill_data.fill_price * fill_data.fill_quantity
    IN  [lock |-> Release(lock, fill_data.stock_code, fill_data.strategy_code).res,
         mg |-> IF fill_amount > 0
                THEN [m EXCEPT !.pending = ReleaseReservation(@, fill_amount)]
                ELSE m]

\* get_locked_capital (kats/order/order_tracker.py)
RECURSIVE GetLockedCapital(_, _)
GetLockedCapital(O, ids) ==
    IF ids = <<>> THEN 0
    ELSE LET order == O[Head(ids)]
         IN  (IF order.order_type = "BUY"
              THEN order.price * (order.quantity - order.filled_quantity) ELSE 0)
             + GetLockedCapital(O, Tail(ids))

\* on_order_fill(order_id, fill_data): [positions, lock, mg]
OnOrderFill(O, order_id, fill_price, fill_quantity, OP, lock, m) ==
    LET order == O[order_id]
        rm == OnOrderFilled(lock, m, [stock_code |-> order.stock_code,
                                       strategy_code |-> order.strategy_code,
                                       fill_price |-> fill_price,
                                       fill_quantity |-> fill_quantity])
    IN  [positions |-> IF order.order_type = "SELL"
                       THEN ReduceOpenPosition(OP, order.stock_code, fill_quantity)
                       ELSE OP,
         lock |-> rm.lock, mg |-> rm.mg]

\* _execute_paper_order(order_id, order_data) on the created order:
\* [orders, paper, positions, lock, mg]
ExecutePaperOrder(O, order_id, order_data, book, P, OP, lock, m) ==
    LET submitted == Transition(O, order_id, "SUBMITTED", NoMeta).orders
        fill_result == ExecuteVirtualOrder(P, order_data, book)
        new_state == IF fill_result.remaining_quantity > 0 THEN "PARTIAL_FILLED" ELSE "FILLED"
        filled == Transition(submitted, order_id, new_state,
                             [fill_price |-> fill_result.fill_price,
                              filled_quantity |-> fill_result.fill_quantity,
                              remaining_quantity |-> fill_result.remaining_quantity]).orders
        of == IF new_state = "FILLED"
              THEN OnOrderFill(filled, order_id, fill_result.fill_price,
                               fill_result.fill_quantity, OP, lock, m)
              ELSE [positions |-> OP, lock |-> lock, mg |-> m]
    IN  IF ~fill_result.success
        THEN [orders |-> Transition(submitted, order_id, "REJECTED", NoMeta).orders,
              paper |-> P, positions |-> OP, lock |-> lock, mg |-> m]
        ELSE [orders |-> filled, paper |-> fill_result.paper,
              positions |-> IF order_data.order_type = "BUY"
                            THEN UpdateOpenPosition(of.positions, order_data,
                                                    fill_result.fill_price,
                                                    fill_result.fill_quantity)
                            ELSE of.positions,
              lock |-> of.lock, mg |-> of.mg]

\* A coroutine suspended in a REST call for order id: the kind of call, the
\* ids its loop still has to visit, and the time, the state and the price
\* it captured.
Task(kind, id, rest, now, partial, new_price) ==
    [kind |-> kind, id |-> id, rest |-> rest, now |-> now, partial |-> partial,
     new_price |-> new_price]

\* Bound: the coroutines suspended in a REST call at the same time.
MaxTasks == 1

\* cancel_order(order_id) up to its REST call: [orders, suspended]
CancelOrder(O, order_id) ==
    LET requested == Transition(O, order_id, "CANCEL_REQUESTED", NoMeta)
    IN  IF ~requested.ok THEN [orders |-> O, suspended |-> FALSE]
        ELSE IF trade_mode = "LIVE" /\ O[order_id].broker_order_no
        THEN [orders |-> requested.orders, suspended |-> TRUE]
        ELSE [orders |-> Transition(requested.orders, order_id, "CANCELLED", NoMeta).orders,
              suspended |-> FALSE]

\* The end of a cancel that writes CANCELLED into the order itself
CancelOrderEndVariant(O, order_id, ok) ==
    IF ~ok THEN [orders |-> O, success |-> FALSE]
    ELSE [orders |-> [O EXCEPT ![order_id].state = "CANCELLED",
                               ![order_id].history = Append(@, "CANCELLED")],
          success |-> TRUE]

\* cancel_order and _cancel_order after the REST call, which answered (ok)
\* or raised: the transition to CANCELLED is asked for, and cancel_order
\* returns success only when it was made: [orders, success]
CancelOrderEnd(O, order_id, ok) ==
    IF ~ok THEN [orders |-> O, success |-> FALSE]
    ELSE LET cancelled == Transition(O, order_id, "CANCELLED", NoMeta)
         IN  [orders |-> cancelled.orders, success |-> cancelled.ok]

RECURSIVE CancelAllPending(_, _)
\* The loop of cancel_all_pending over the ids it still has to visit, up to
\* the first cancel_order that suspends: [orders, tasks]
CancelAllPending(O, ids) ==
    IF ids = <<>> THEN [orders |-> O, tasks |-> {}]
    ELSE LET c == CancelOrder(O, Head(ids))
         IN  IF c.suspended
             THEN [orders |-> c.orders,
                   tasks |-> {Task("cancel", Head(ids), Tail(ids), 0, FALSE, 0)}]
             ELSE CancelAllPending(c.orders, Tail(ids))

\* The end of modify_order: back to SUBMITTED when it started from
\* PARTIAL_FILLED, else the new price is written into the order.
ModifyOrderEnd(O, order_id, partial, new_price) ==
    IF partial THEN Transition(O, order_id, "SUBMITTED", NoMeta).orders
    ELSE [O EXCEPT ![order_id].price = new_price]

----------------------------------------------------------------------------
(* OrderTracker (kats/order/order_tracker.py) *)

\* TTLs in seconds, the amend threshold in percent of the TTL
DEFAULT_ORDER_TTL_SEC == 300
STRATEGY_TTL == [x \in {"VB", "S2", "GR"} |->
    CASE x = "VB" -> 60 [] x = "S2" -> 120 [] OTHER -> 600]
AMEND_THRESHOLD_RATIO == 80

RECURSIVE CheckPendingOrders(_, _, _)
\* The loop of _check_pending_orders over the ids it still has to visit, with
\* _cancel_order, _cancel_remaining and _amend_to_market_price, up to the
\* first REST call: [orders, tasks].  It reads order["state"] when it comes
\* to the order.
CheckPendingOrders(O, ids, now) ==
    IF ids = <<>> THEN [orders |-> O, tasks |-> {}]
    ELSE LET order_id == Head(ids)
             order == O[order_id]
             ttl == IF order.strategy_code \in DOMAIN STRATEGY_TTL
                    THEN STRATEGY_TTL[order.strategy_code] ELSE DEFAULT_ORDER_TTL_SEC
             elapsed == now - order.created_at
             requested == Transition(O, order_id, "CANCEL_REQUESTED", NoMeta)
         IN  IF elapsed >= ttl
             THEN IF ~requested.ok THEN CheckPendingOrders(O, Tail(ids), now)
                  ELSE IF order.broker_order_no
                  THEN [orders |-> requested.orders,
                        tasks |-> {Task("sweep_cancel", order_id, Tail(ids), now, FALSE, 0)}]
                  ELSE CheckPendingOrders(
                           Transition(requested.orders, order_id, "CANCELLED", NoMeta).orders,
                           Tail(ids), now)
             ELSE IF /\ elapsed * 100 >= AMEND_THRESHOLD_RATIO * ttl
                     /\ order.state = "SUBMITTED"
                     /\ ~order.amended
             THEN IF order.broker_order_no
                  THEN [orders |-> O,
                        tasks |-> {Task("sweep_amend", order_id, Tail(ids), now, FALSE, 0)}]
                  ELSE CheckPendingOrders([O EXCEPT ![order_id].amended = TRUE], Tail(ids), now)
             ELSE CheckPendingOrders(O, Tail(ids), now)

\* on_fill_notification that asks the state machine for PARTIAL_FILLED at
\* every partial fill, whatever the state of the order
OnFillNotificationVariant(O, data) ==
    LET order_id == data.order_id
        metadata == [fill_price |-> data.ccld_prc, filled_quantity |-> data.tot_ccld_qty,
                     remaining_quantity |-> data.rmn_qty]
    IN  IF order_id \notin 1..Len(O) THEN O
        ELSE IF data.rmn_qty <= 0 THEN Transition(O, order_id, "FILLED", metadata).orders
        ELSE Transition(O, order_id, "PARTIAL_FILLED", metadata).orders

\* on_fill_notification(data), data = [order_id, tot_ccld_qty, rmn_qty, ccld_prc]
OnFillNotification(O, data) ==
    LET order_id == data.order_id
        metadata == [fill_price |-> data.ccld_prc, filled_quantity |-> data.tot_ccld_qty,
                     remaining_quantity |-> data.rmn_qty]
    IN  IF order_id \notin 1..Len(O) THEN O
        ELSE IF data.rmn_qty <= 0 THEN Transition(O, order_id, "FILLED", metadata).orders
        ELSE IF O[order_id].state = "SUBMITTED"
        THEN Transition(O, order_id, "PARTIAL_FILLED", metadata).orders
        ELSE IF O[order_id].state = "PARTIAL_FILLED"
        THEN [O EXCEPT ![order_id].fill_price = data.ccld_prc,
                       ![order_id].filled_quantity = data.tot_ccld_qty,
                       ![order_id].remaining_quantity = data.rmn_qty]
        ELSE O

----------------------------------------------------------------------------
(* The order manager and the order tracker at work *)

OrderInit ==
    /\ orders = <<>>
    /\ open_positions = EmptyMap
    /\ paper_positions = EmptyMap
    /\ trade_mode \in {"PAPER", "LIVE"}
    /\ block_new_orders = FALSE
    /\ wall = 0
    /\ om_tasks = {}

\* The signals and contexts of the orders placed.  A signal carries the keys
\* of the risk pipeline and those of place_order: order_type is the action,
\* price the entry price, quantity what the sizing of the pipeline wrote.
OrderSignals ==
    [stock_code : RiskStocks, action : {"BUY", "SELL"}, strategy_code : {"VB"},
     entry_price : {1000}, stop_loss : {900}, grade : {"B"}, confidence : {5},
     sector : {"IT"}]
OrderContexts ==
    [current_positions : {<<>>}, regime : {"BULL", "STRONG_BULL"}, total_capital : {10000},
     daily_pnl_pct : {0}, monthly_pnl_pct : {0}, cumulative_pnl_pct : {0},
     current_capital : {0}]

\* place_order(signal), up to the REST call in LIVE mode and to its end in
\* PAPER mode.
OmPlaceOrder(signal, ctx, book) ==
    LET st == [dd |-> dd, ks |-> ks, lock |-> reservations, mg |-> mg]
        env == [now |-> dd_now, ms |-> mono_ms, vi |-> vi_active]
        r == ValidateOrder(signal, ctx, st, env)
        quantity == r.quantity
        margin_result == CheckMargin(signal.action, signal.entry_price * quantity,
                                     GetLockedCapital(orders, PendingIds(orders)))
        refused == r.step # 0 \/ (signal.action = "BUY" /\ ~margin_result.sufficient)
        order_id == Len(orders) + 1
        order_data == [stock_code |-> signal.stock_code, order_type |-> signal.action,
                       quantity |-> quantity, price |-> signal.entry_price,
                       strategy_code |-> signal.strategy_code]
        created == CreateOrder(orders, order_data, wall)
        p == ExecutePaperOrder(created, order_id, order_data, book, paper_positions,
                               open_positions, r.st.lock, r.st.mg)
    IN  IF block_new_orders THEN UNCHANGED vars
        ELSE /\ r.step # 10
             /\ UNCHANGED <<dd_now, mono_ms, vi_active, vs_tasks, trade_mode,
                            block_new_orders, wall>>
             /\ vs_obs' = NoObs
             /\ IF refused
                THEN /\ ApplyOutcome(r, ctx, r.st.lock, r.st.mg)
                     /\ UNCHANGED <<orders, open_positions, paper_positions, om_tasks>>
                ELSE IF trade_mode = "LIVE"
                THEN /\ Len(orders) < MaxOrders
                     /\ Cardinality(om_tasks) < MaxTasks
                     /\ ApplyOutcome(r, ctx, r.st.lock, r.st.mg)
                     /\ orders' = Transition(created, order_id, "SUBMITTED", NoMeta).orders
                     /\ om_tasks' = om_tasks \cup {Task("place", order_id, <<>>, 0, FALSE, 0)}
                     /\ UNCHANGED <<open_positions, paper_positions>>
                ELSE /\ Len(orders) < MaxOrders
                     /\ ApplyOutcome(r, ctx, p.lock, p.mg)
                     /\ orders' = p.orders
                     /\ open_positions' = p.positions
                     /\ paper_positions' = p.paper
                     /\ UNCHANGED om_tasks

\* What no step of the order manager or tracker after place_order changes.
riskSide == <<lockVars, killVars, ddVars, riskVars>>
orderFixed == <<open_positions, paper_positions, trade_mode, block_new_orders, wall>>

\* The REST place_order of _execute_live_order answers or raises.
OmRestPlaceReturned(t, ok) ==
    /\ t \in om_tasks /\ t.kind = "place"
    /\ orders' = IF ok THEN [orders EXCEPT ![t.id].broker_order_no = TRUE]
                 ELSE Transition(orders, t.id, "ERROR", NoMeta).orders
    /\ om_tasks' = om_tasks \ {t}
    /\ UNCHANGED <<riskSide, orderFixed>>

\* cancel_order(order_id), up to its REST call or to its end
OmCancelOrder(order_id) ==
    LET loop == CancelAllPending(orders, <<order_id>>)
    IN  /\ order_id \in 1..Len(orders)
        /\ loop.tasks # {} => Cardinality(om_tasks) < MaxTasks
        /\ orders' = loop.orders
        /\ om_tasks' = om_tasks \cup loop.tasks
        /\ UNCHANGED <<riskSide, orderFixed>>

\* cancel_all_pending(), up to the first REST call or to its end
OmCancelAllPending ==
    LET loop == CancelAllPending(orders, PendingIds(orders))
    IN  /\ loop.tasks # {} => Cardinality(om_tasks) < MaxTasks
        /\ orders' = loop.orders
        /\ om_tasks' = om_tasks \cup loop.tasks
        /\ UNCHANGED <<riskSide, orderFixed>>

\* The REST cancel_order of cancel_order answers or raises; the loop of
\* cancel_all_pending that called it goes on.
OmRestCancelReturned(t, ok) ==
    LET done == CancelOrderEnd(orders, t.id, ok).orders
        loop == CancelAllPending(done, t.rest)
    IN  /\ t \in om_tasks /\ t.kind = "cancel"
        /\ orders' = loop.orders
        /\ om_tasks' = (om_tasks \ {t}) \cup loop.tasks
        /\ UNCHANGED <<riskSide, orderFixed>>

\* modify_order(order_id, new_price), up to its REST call or to its end
OmModifyOrder(order_id, new_price) ==
    LET partial == orders[order_id].state = "PARTIAL_FILLED"
        started == IF partial
                   THEN Transition(orders, order_id, "AMEND_REQUESTED", NoMeta).orders
                   ELSE orders
        task == Task("modify", order_id, <<>>, 0, partial, new_price)
    IN  /\ order_id \in 1..Len(orders)
        /\ IF trade_mode = "LIVE" /\ orders[order_id].broker_order_no
           THEN /\ Cardinality(om_tasks) < MaxTasks
                /\ orders' = started
                /\ om_tasks' = om_tasks \cup {task}
           ELSE /\ orders' = ModifyOrderEnd(started, order_id, partial, new_price)
                /\ UNCHANGED om_tasks
        /\ UNCHANGED <<riskSide, orderFixed>>

\* The REST modify_order of modify_order answers or raises.
OmRestModifyReturned(t, ok) ==
    /\ t \in om_tasks /\ t.kind = "modify"
    /\ orders' = IF ok THEN ModifyOrderEnd(orders, t.id, t.partial, t.new_price) ELSE orders
    /\ om_tasks' = om_tasks \ {t}
    /\ UNCHANGED <<riskSide, orderFixed>>

\* One round of the tracking loop: _check_pending_orders() on the pending
\* orders, up to the first REST call or to its end.  The loop starts the next
\* round when this one has ended.
TrCheckPendingOrders ==
    LET loop == CheckPendingOrders(orders, PendingIds(orders), wall)
    IN  /\ \A t \in om_tasks : t.kind \notin {"sweep_cancel", "sweep_amend"}
        /\ loop.tasks # {} => Cardinality(om_tasks) < MaxTasks
        /\ orders' = loop.orders
        /\ om_tasks' = om_tasks \cup loop.tasks
        /\ UNCHANGED <<riskSide, orderFixed>>

\* The REST cancel_order of _cancel_order or _cancel_remaining answers or
\* raises; the round goes on.
TrRestCancelReturned(t, ok) ==
    LET done == CancelOrderEnd(orders, t.id, ok).orders
        loop == CheckPendingOrders(done, t.rest, t.now)
    IN  /\ t \in om_tasks /\ t.kind = "sweep_cancel"
        /\ orders' = loop.orders
        /\ om_tasks' = (om_tasks \ {t}) \cup loop.tasks
        /\ UNCHANGED <<riskSide, orderFixed>>

\* The REST modify_order of _amend_to_market_price answers or raises; the
\* round goes on.
TrRestAmendReturned(t, ok) ==
    LET done == IF ok THEN [orders EXCEPT ![t.id].amended = TRUE] ELSE orders
        loop == CheckPendingOrders(done, t.rest, t.now)
    IN  /\ t \in om_tasks /\ t.kind = "sweep_amend"
        /\ orders' = loop.orders
        /\ om_tasks' = (om_tasks \ {t}) \cup loop.tasks
        /\ UNCHANGED <<riskSide, orderFixed>>

\* The broker reports that tot_ccld_qty shares of a LIVE order are filled by
\* now: on_fill_notification(data).
TrOnFillNotification(order_id, tot_ccld_qty) ==
    /\ trade_mode = "LIVE"
    /\ order_id \in 1..Len(orders)
    /\ tot_ccld_qty \in (orders[order_id].filled_quantity + 1)..orders[order_id].quantity
    /\ orders' = OnFillNotification(orders,
                    [order_id |-> order_id, tot_ccld_qty |-> tot_ccld_qty,
                     rmn_qty |-> orders[order_id].quantity - tot_ccld_qty,
                     ccld_prc |-> orders[order_id].price])
    /\ UNCHANGED <<riskSide, orderFixed, om_tasks>>

\* Time passes.
WallAdvance(t) ==
    /\ t > wall
    /\ wall' = t
    /\ UNCHANGED <<riskSide, orders, open_positions, paper_positions, trade_mode,
                   block_new_orders, om_tasks>>

OrderNext ==
    \/ \E signal \in OrderSignals, ctx \in OrderContexts, book \in OrderBooks :
            OmPlaceOrder(signal, ctx, book)
    \/ \E t \in om_tasks, ok \in BOOLEAN : OmRestPlaceReturned(t, ok)
    \/ \E id \in 1..Len(orders) : OmCancelOrder(id)
    \/ OmCancelAllPending
    \/ \E t \in om_tasks, ok \in BOOLEAN : OmRestCancelReturned(t, ok)
    \/ \E id \in 1..Len(orders), new_price \in {1000} : OmModifyOrder(id, new_price)
    \/ \E t \in om_tasks, ok \in BOOLEAN : OmRestModifyReturned(t, ok)
    \/ TrCheckPendingOrders
    \/ \E t \in om_tasks, ok \in BOOLEAN : TrRestCancelReturned(t, ok)
    \/ \E t \in om_tasks, ok \in BOOLEAN : TrRestAmendReturned(t, ok)
    \/ \E id \in 1..Len(orders), q \in 1..2 : TrOnFillNotification(id, q)
    \/ \E t \in {48, 60} : WallAdvance(t)
    \/ \E b \in Balances \ {0} : MgSetBalance(b) /\ UNCHANGED orderVars

\* BUY orders placed while the capital is at its start (current_capital 0:
\* the total capital counts) or 3% below it, with the kill switch at work.
HaltNext ==
    \/ \E signal \in OrderSignals, ctx \in OrderContexts, current_capital \in {0, 9700} :
            /\ signal.action = "BUY"
            /\ ctx.regime = "BULL"
            /\ OmPlaceOrder(signal, [ctx EXCEPT !.current_capital = current_capital],
                            [present |-> TRUE, best_price |-> 1000, best_volume |-> 10])
    \/ \E t \in om_tasks, ok \in BOOLEAN : OmRestPlaceReturned(t, ok)
    \/ \E b \in Balances \ {0} : MgSetBalance(b) /\ UNCHANGED orderVars
    \/ RmResetDaily(10000) /\ UNCHANGED orderVars
    \/ KsShutdownStart /\ UNCHANGED <<lockVars, ddVars, riskVars, orderVars>>
    \/ KsShutdownCancelled /\ UNCHANGED <<lockVars, ddVars, riskVars, orderVars>>
    \/ KsShutdownNotified /\ UNCHANGED <<lockVars, ddVars, riskVars, orderVars>>

\* Orders of a grade A stock placed and filled, with nothing cancelled or
\* amended: paper fills in PAPER mode, fill notifications in LIVE mode.
FillNext ==
    \/ \E signal \in OrderSignals, ctx \in OrderContexts, book \in OrderBooks :
            OmPlaceOrder([signal EXCEPT !.grade = "A"], ctx, book)
    \/ \E t \in om_tasks, ok \in BOOLEAN : OmRestPlaceReturned(t, ok)
    \/ \E id \in 1..Len(orders), q \in 1..2 : TrOnFillNotification(id, q)
    \/ \E b \in Balances \ {0} : MgSetBalance(b) /\ UNCHANGED orderVars
    \/ MonoTick /\ UNCHANGED orderVars

\* BUY orders left to the tracking loop, with the broker accepting every
\* order and answering every cancel request; a price change may fail.
SweepNext ==
    \/ \E signal \in OrderSignals, ctx \in OrderContexts, book \in OrderBooks :
            signal.action = "BUY" /\ OmPlaceOrder(signal, ctx, book)
    \/ \E t \in om_tasks : OmRestPlaceReturned(t, TRUE)
    \/ \E id \in 1..Len(orders) : OmCancelOrder(id)
    \/ \E t \in om_tasks : OmRestCancelReturned(t, TRUE)
    \/ \E id \in 1..Len(orders) : OmModifyOrder(id, 1000)
    \/ \E t \in om_tasks, ok \in BOOLEAN : OmRestModifyReturned(t, ok)
    \/ TrCheckPendingOrders
    \/ \E t \in om_tasks : TrRestCancelReturned(t, TRUE)
    \/ \E t \in om_tasks, ok \in BOOLEAN : TrRestAmendReturned(t, ok)
    \/ \E id \in 1..Len(orders), q \in 1..2 : TrOnFillNotification(id, q)
    \/ \E t \in {48, 60} : WallAdvance(t)
    \/ \E b \in Balances \ {0} : MgSetBalance(b) /\ UNCHANGED orderVars

----------------------------------------------------------------------------
(* The paper engine on its own *)

\* Bounds: the largest order quantity and the largest volume of a quote.
MaxQuantity == 4
MaxVolume == 11

\* execute_virtual_order(order) on a fresh paper engine, against a quote of
\* any price and volume or none.
PtExecuteVirtualOrder(order_type, quantity, book) ==
    LET order == [stock_code |-> "005930", order_type |-> order_type,
                  quantity |-> quantity, price |-> book.best_price]
    IN  paper_fill' = [called |-> TRUE, order_type |-> order_type,
                       quantity |-> quantity, book |-> book,
                       result |-> ExecuteVirtualOrder(EmptyMap, order, book)]

----------------------------------------------------------------------------
(* The margin guard called directly, by several callers at a time *)

\* Bounds: the validate_order calls in flight at a time, and the balance of
\* the account, which get_balance_fn returns whenever it answers.
MaxMarginCalls == 2
MarginBalance == 1903

\* validate_order(stock_code, quantity, price, order_type) by caller c, to its
\* end or to the balance query of _get_available_cash.
MgValidateOrder(c, stock_code, quantity, price, order_type) ==
    LET required_amount == RequiredAmount(quantity, price)
        call == [pc |-> "idle", order_type |-> order_type, stock_code |-> stock_code,
                 gross |-> quantity * price, required |-> required_amount, ret |-> "none"]
        r == ReserveIfAvailable(mg, stock_code, required_amount, mono_ms)
    IN  /\ mg_calls[c].pc = "idle"
        /\ IF order_type = "SELL"
           THEN /\ mg_calls' = [mg_calls EXCEPT ![c] = [call EXCEPT !.ret = "ok"]]
                /\ mg' = mg
           ELSE IF ~mg.fresh
           THEN /\ mg_calls' = [mg_calls EXCEPT ![c] = [call EXCEPT !.pc = "balance"]]
                /\ mg' = mg
           ELSE /\ mg_calls' = [mg_calls EXCEPT ![c] =
                                    [call EXCEPT !.ret = IF r.ok THEN "ok" ELSE "rejected"]]
                /\ mg' = r.mg
        /\ UNCHANGED <<lockVars, killVars, ddVars, mono_ms, vi_active, vs_tasks, vs_obs>>

\* get_balance_fn answers caller c, or raises; validate_order runs to its end.
MgBalanceReturned(c, ok) ==
    LET call == mg_calls[c]
        m1 == IF ok THEN [mg EXCEPT !.cached_balance = MarginBalance, !.fresh = TRUE] ELSE mg
        r == ReserveIfAvailable(m1, call.stock_code, call.required, mono_ms)
    IN  /\ call.pc = "balance"
        /\ mg_calls' = [mg_calls EXCEPT ![c] =
                            [call EXCEPT !.pc = "idle",
                                         !.ret = IF r.ok THEN "ok" ELSE "rejected"]]
        /\ mg' = r.mg
        /\ UNCHANGED <<lockVars, killVars, ddVars, mono_ms, vi_active, vs_tasks, vs_obs>>

----------------------------------------------------------------------------
(* RateLimiter (kats/api/rate_limiter.py) *)

\* Tokens are counted in 1/TokenScale of a token and time in ticks of the
\* time it takes to refill that much, so that the refill rate is one unit a
\* tick.  Bounds: the bucket size in tokens, the callers, the last tick.
TokenScale == 2
MaxTokens == 2
MaxCallers == 3
MaxTick == 7

\* _refill() without the cap of the bucket size
RefillVariant(r) ==
    [r EXCEPT !.tokens = @ + (r.now - r.last_refill), !.last_refill = r.now]

\* _refill()
Refill(r) ==
    [r EXCEPT !.tokens = Min2(MaxTokens * TokenScale, @ + (r.now - r.last_refill)),
              !.last_refill = r.now]

\* The body of acquire() once caller c holds the lock: it refills and takes
\* a token, or goes to sleep for the time the missing part of a token takes.
RlEnter(r, c) ==
    LET f == Refill(r)
    IN  IF f.tokens < TokenScale
        THEN [f EXCEPT !.holder = c, !.wake = f.now + (TokenScale - f.tokens)]
        ELSE [f EXCEPT !.tokens = @ - TokenScale, !.holder = 0,
                       !.returned = Append(@, f.now)]

\* acquire() called by c: it enters when the lock is free and nobody waits
\* for it, and queues for the lock otherwise.
RlAcquire(c) ==
    /\ c # rl.holder
    /\ \A i \in 1..Len(rl.waiters) : rl.waiters[i] # c
    /\ rl' = IF rl.holder = 0 /\ rl.waiters = <<>>
             THEN RlEnter(rl, c)
             ELSE [rl EXCEPT !.waiters = Append(@, c)]

\* A suspended acquire() goes on: the sleeper wakes when its time has passed,
\* refills and takes its token; or the first waiter gets the free lock.
RlResume ==
    IF rl.holder # 0
    THEN /\ rl.now >= rl.wake
         /\ rl' = LET f == Refill(rl)
                  IN  [f EXCEPT !.tokens = @ - TokenScale, !.holder = 0,
                                !.returned = Append(@, f.now)]
    ELSE /\ rl.waiters # <<>>
         /\ rl' = RlEnter([rl EXCEPT !.waiters = Tail(@)], Head(rl.waiters))

\* time.monotonic() moves on.
RlTick ==
    /\ rl.now < MaxTick
    /\ rl' = [rl EXCEPT !.now = @ + 1]

----------------------------------------------------------------------------
(* KISRestClient.request (kats/api/kis_rest_client.py) *)

_MAX_RETRY_ATTEMPTS == 3

\* Bound: the request() calls made one after the other.
MaxRequests == 2

\* What one HTTP attempt can end in: a body with rt_cd "0", a body with
\* another rt_cd and this msg_cd, or an exception of the transport.
\* EGW00123 stands for any msg_cd that is not retryable.
AttemptResults == {"0", "EGW00200", "EGW00201", "EGW00123", "ClientError", "TimeoutError"}

\* The loop body after an attempt, with every broker error retried
DecideVariant(attempt, r) ==
    IF r = "0" THEN [pc |-> "returned", wait |-> 0]
    ELSE IF attempt < _MAX_RETRY_ATTEMPTS - 1
         THEN [pc |-> "sleep", wait |-> 2 ^ (attempt + 1)]
         ELSE [pc |-> IF r \in {"ClientError", "TimeoutError"} THEN "net_error" ELSE "api_error",
               wait |-> 0]

\* The loop body after attempt number `attempt` ended in r: return the data,
\* sleep before the next attempt, raise KISAPIError, or leave the loop and
\* raise the last transport exception.
Decide(attempt, r) ==
    IF r = "0" THEN [pc |-> "returned", wait |-> 0]
    ELSE IF r \in {"ClientError", "TimeoutError"}
         THEN IF attempt < _MAX_RETRY_ATTEMPTS - 1
              THEN [pc |-> "sleep", wait |-> 2 ^ (attempt + 1)]
              ELSE [pc |-> "net_error", wait |-> 0]
         ELSE IF r \in {"EGW00200", "EGW00201"} /\ attempt < _MAX_RETRY_ATTEMPTS - 1
              THEN [pc |-> "sleep", wait |-> 2 ^ (attempt + 1)]
              ELSE [pc |-> "api_error", wait |-> 0]

\* request() is called and runs up to the loop: it takes one token from the
\* rate limiter, builds the headers (which raises when the token or the hash
\* key cannot be had) and sends attempt 0.
RqRequest(prepared) ==
    /\ rq.pc \notin {"http", "sleep"}
    /\ rq.calls < MaxRequests
    /\ rq' = [rq EXCEPT !.calls = @ + 1, !.acquired = @ + 1, !.attempt = 0,
                        !.results = <<>>, !.sleeps = <<>>,
                        !.pc = IF prepared THEN "http" ELSE "setup_error",
                        !.sent = IF prepared THEN @ + 1 ELSE @]

\* The attempt in flight ends in r.
RqAttemptDone(r) ==
    /\ rq.pc = "http"
    /\ LET d == Decide(rq.attempt, r)
       IN  rq' = [rq EXCEPT !.results = Append(@, r), !.pc = d.pc,
                            !.sleeps = IF d.pc = "sleep" THEN Append(@, d.wait) ELSE @]

\* asyncio.sleep(wait) is over: the loop goes on and sends the next attempt.
RqSleepDone ==
    /\ rq.pc = "sleep"
    /\ rq' = [rq EXCEPT !.attempt = @ + 1, !.sent = @ + 1, !.pc = "http"]

----------------------------------------------------------------------------
(* KISWebSocketClient (kats/api/kis_websocket_client.py) *)

_MAX_RECONNECTS == 30
_MAX_BACKOFF_SECONDS == 60

\* The (tr_id, tr_key) pairs callers subscribe to.
Pairs == {<<"H0STCNT0", "005930">>, <<"H0STCNT0", "000660">>, <<"H0STASP0", "005930">>}

\* _subscriptions maps a tr_id to the set of its keys: the tr_ids of a set of
\* pairs, and the pairs of one tr_id.
TrIdsOf(S) == {p[1] : p \in S}
KeysOf(S, tr_id) == {p \in S : p[1] = tr_id}

\* The except branch of connect() for a connection error: _ws is dropped; a
\* client that was told to stop leaves the loop, any other counts the failure
\* and sleeps min(2 ** _reconnect_count, 60).
WsFailed(w) ==
    IF ~w.running
    THEN [w EXCEPT !.has_ws = FALSE, !.pc = "returned", !.todo = {}, !.keys = {}]
    ELSE [w EXCEPT !.has_ws = FALSE, !.pc = "sleep", !.todo = {}, !.keys = {},
                   !.reconnect_count = @ + 1,
                   !.wait = Min2(2 ^ (w.reconnect_count + 1), _MAX_BACKOFF_SECONDS)]

\* The head of the while loop of connect(): another attempt, or the end,
\* reached after `after` (the call, a sleep, or the end of the receive loop).
WsLoop(w, after) ==
    IF w.running /\ w.reconnect_count < _MAX_RECONNECTS
    THEN [w EXCEPT !.pc = "connecting", !.after = after]
    ELSE [w EXCEPT !.pc = "returned"]

\* connect() is called.
WsConnect ==
    /\ ws.pc \in {"idle", "returned"}
    /\ ws' = WsLoop([ws EXCEPT !.running = TRUE], "call")

\* websockets.connect() ends.  On success _ws is set, the counter is reset
\* and _restore_subscriptions starts.  Its outer loop runs over a copy of the
\* items of _subscriptions, in which the key sets are the live sets; its
\* inner loop runs over a copy of one tr_id's keys, taken when the outer loop
\* comes to that tr_id.  todo holds the tr_ids the outer loop has not come to,
\* keys the pairs left in the inner copy.  The first pair is sent before the
\* first sleep.
WsConnected(ok) ==
    /\ ws.pc = "connecting"
    /\ IF ~ok
       THEN ws' = WsFailed(ws)
       ELSE IF ws.subs = {}
            THEN ws' = [ws EXCEPT !.has_ws = TRUE, !.reconnect_count = 0, !.pc = "open",
                                  !.todo = {}, !.keys = {}, !.replayed = {}]
            ELSE \E p \in ws.subs :
                    ws' = [ws EXCEPT !.has_ws = TRUE, !.reconnect_count = 0, !.pc = "replay",
                                     !.todo = TrIdsOf(ws.subs) \ {p[1]},
                                     !.keys = KeysOf(ws.subs, p[1]) \ {p},
                                     !.replayed = {p}]

\* The 0.1 s sleep of _restore_subscriptions is over: _subscribe is called
\* for the next pair of the copy, or the receive loop is entered.
\* _subscribe only logs when _ws is None; otherwise it sends and adds.  The
\* receive loop over a socket that disconnect() has closed ends at once.
WsReplayStep ==
    /\ ws.pc = "replay"
    /\ IF ws.keys # {}
       THEN \E p \in ws.keys :
                ws' = IF ws.has_ws
                      THEN [ws EXCEPT !.keys = @ \ {p}, !.replayed = @ \cup {p},
                                      !.subs = @ \cup {p}]
                      ELSE [ws EXCEPT !.keys = @ \ {p}]
       ELSE IF ws.todo # {}
       THEN \E p \in ws.subs :
                /\ p[1] \in ws.todo
                /\ ws' = IF ws.has_ws
                         THEN [ws EXCEPT !.todo = @ \ {p[1]},
                                         !.keys = KeysOf(ws.subs, p[1]) \ {p},
                                         !.replayed = @ \cup {p}]
                         ELSE [ws EXCEPT !.todo = @ \ {p[1]},
                                         !.keys = KeysOf(ws.subs, p[1]) \ {p}]
       ELSE ws' = IF ws.has_ws THEN [ws EXCEPT !.pc = "open"] ELSE WsLoop(ws, "close")

\* The connection is lost.  An error raises one of the exceptions connect()
\* catches; after a clean close by the server the iteration over the
\* messages ends without an exception and the while loop goes round.
WsLost(clean) ==
    /\ ws.has_ws
    /\ \/ ws.pc = "open"
       \/ ws.pc = "replay" /\ ~clean
    /\ ws' = IF clean THEN WsLoop(ws, "close") ELSE WsFailed(ws)

\* The backoff sleep of connect() is over.
WsSleepDone ==
    /\ ws.pc = "sleep"
    /\ ws' = WsLoop(ws, "sleep")

\* disconnect(): the client is told to stop and the socket, if _ws holds
\* one, is closed, which ends the receive loop.
WsDisconnect ==
    /\ ws.running \/ ws.has_ws
    /\ ws' = IF ws.pc = "open"
             THEN [ws EXCEPT !.running = FALSE, !.has_ws = FALSE, !.pc = "returned"]
             ELSE [ws EXCEPT !.running = FALSE, !.has_ws = FALSE]

\* _subscribe(tr_id, tr_key) called by a user of the client: it returns
\* without a socket, it raises when the send fails on a socket that has been
\* closed, otherwise it sends and adds the pair.  asked keeps the request.
WsSubscribe(p) ==
    ws' = IF ws.has_ws /\ ws.pc \in {"open", "replay"}
          THEN [ws EXCEPT !.asked = <<"subscribe", p>>, !.subs = @ \cup {p}]
          ELSE [ws EXCEPT !.asked = <<"subscribe", p>>]

\* _unsubscribe(tr_id, tr_key), likewise.  The key is discarded from the live
\* set of its tr_id; a set left empty is deleted from _subscriptions, and the
\* outer loop of a replay finds it empty when it comes to it.
WsUnsubscribe(p) ==
    ws' = IF ws.has_ws /\ ws.pc \in {"open", "replay"}
          THEN [ws EXCEPT !.asked = <<"unsubscribe", p>>, !.subs = @ \ {p},
                          !.todo = IF KeysOf(ws.subs \ {p}, p[1]) = {}
                                   THEN @ \ {p[1]} ELSE @]
          ELSE [ws EXCEPT !.asked = <<"unsubscribe", p>>]

----------------------------------------------------------------------------
(* RealtimeCache (kats/market/realtime_cache.py) *)

\* Time is counted in seconds.  Of a price and of an order book the model
\* keeps the time of reception, -1 for a stock that has none; of a VI status
\* its state, "UNKNOWN" for a stock that has none.
MAX_AGE_SEC == 3

\* Bound: the last second of the cache's clock.
MaxCacheClock == 4

\* on_vi_update(stock_code, data) with data["vi_cls_code"] = vi_cls.
OnViUpdate(c, stock_code, vi_cls) ==
    [c EXCEPT !.vi_status[stock_code] = IF vi_cls = "1" THEN "TRIGGERED"
                                        ELSE IF vi_cls = "2" THEN "COOLING"
                                        ELSE "NORMAL",
              !.last_update[stock_code] = c.now]

\* is_data_fresh(stock_code) with the default max_age_sec
IsDataFresh(c, stock_code) ==
    LET last == IF c.last_update[stock_code] = -1 THEN 0 ELSE c.last_update[stock_code]
    IN  c.now - last <= MAX_AGE_SEC

\* snapshot(stock_code): the fields that depend on the modelled state
Snapshot(c, stock_code) ==
    [price_known |-> c.prices[stock_code] # -1,
     orderbook_known |-> c.orderbooks[stock_code] # -1,
     vi_state |-> c.vi_status[stock_code],
     data_fresh |-> IsDataFresh(c, stock_code)]

\* on_price_update(stock_code, data)
CaOnPriceUpdate(stock_code) ==
    cache' = [cache EXCEPT !.prices[stock_code] = cache.now,
                           !.last_update[stock_code] = cache.now]

\* on_orderbook_update(stock_code, data)
CaOnOrderbookUpdate(stock_code) ==
    cache' = [cache EXCEPT !.orderbooks[stock_code] = cache.now,
                           !.last_update[stock_code] = cache.now]

\* on_vi_update(stock_code, data) called on the cache directly
CaOnViUpdate(stock_code, vi_cls) ==
    cache' = OnViUpdate(cache, stock_code, vi_cls)

\* clear()
CaClear ==
    cache' = [cache EXCEPT !.prices = [s \in Stocks |-> -1],
                           !.orderbooks = [s \in Stocks |-> -1],
                           !.vi_status = [s \in Stocks |-> "UNKNOWN"],
                           !.last_update = [s \in Stocks |-> -1]]

\* time.monotonic() moves on by a second.
CaTick ==
    /\ cache.now < MaxCacheClock
    /\ cache' = [cache EXCEPT !.now = @ + 1]

----------------------------------------------------------------------------
(* VIMonitor (kats/market/vi_monitor.py) *)

\* Bound: the cooling timers started for one stock.
MaxTimers == 2

\* _cancel_cooling_task that only forgets the task
CancelCoolingTaskVariant(v, stock_code) ==
    [v EXCEPT !.cooling[stock_code] = 0]

\* _cancel_cooling_task: the task is taken out of _cooling_tasks and is
\* cancelled when it has not ended.  A cancelled task gets CancelledError at
\* its await, also when its sleep was already over, and does no more.
CancelCoolingTask(v, stock_code) ==
    LET task == v.cooling[stock_code]
    IN  IF task # 0 /\ v.tasks[stock_code][task] = "sleeping"
        THEN [v EXCEPT !.cooling[stock_code] = 0, !.tasks[stock_code][task] = "cancelled"]
        ELSE [v EXCEPT !.cooling[stock_code] = 0]

\* on_vi_data(stock_code, data) with data["vi_cls_code"] = vi_cls.  A
\* TRIGGERED and a RELEASED event are passed on to the cache.
ViOnData(stock_code, vi_cls) ==
    /\ vi_cls = "2" => Len(vim.tasks[stock_code]) < MaxTimers
    /\ cache' = IF vi_cls \in {"1", "2"} THEN OnViUpdate(cache, stock_code, vi_cls) ELSE cache
    /\ vim' =
        IF vi_cls = "1"
        THEN CancelCoolingTask([vim EXCEPT !.states[stock_code] = "VI_TRIGGERED",
                                           !.last[stock_code] = "1"], stock_code)
        ELSE IF vi_cls = "2"
        THEN LET c == CancelCoolingTask([vim EXCEPT !.states[stock_code] = "COOLING",
                                                    !.last[stock_code] = "2"], stock_code)
             IN  [c EXCEPT !.tasks[stock_code] = Append(@, "sleeping"),
                           !.cooling[stock_code] = Len(c.tasks[stock_code]) + 1]
        ELSE vim

\* The sleep of a _transition_to_normal task is over and the task goes on.
ViTransitionToNormal(stock_code, task) ==
    /\ task \in 1..Len(vim.tasks[stock_code])
    /\ vim.tasks[stock_code][task] = "sleeping"
    /\ vim' = [vim EXCEPT !.states[stock_code] = "NORMAL", !.cooling[stock_code] = 0,
                          !.tasks[stock_code][task] = "done"]
    /\ UNCHANGED cache

\* shutdown(): every task of _cooling_tasks that has not ended is cancelled.
ViShutdown ==
    /\ vim' = [vim EXCEPT
                 !.cooling = [s \in Stocks |-> 0],
                 !.tasks = [s \in Stocks |->
                               [i \in 1..Len(vim.tasks[s]) |->
                                   IF i = vim.cooling[s] /\ vim.tasks[s][i] = "sleeping"
                                   THEN "cancelled" ELSE vim.tasks[s][i]]]]
    /\ UNCHANGED cache

----------------------------------------------------------------------------
(* OrderStateMachine called directly, with one registered listener *)

COMPLETED_STATES == {"FILLED", "CANCELLED", "EXPIRED"}

\* Bounds: the orders created, the entries of a history, the clock.
MaxMachineOrders == 2
MaxHistory == 4
MaxMachineClock == 2

\* create_order(order_id, order_data): the id is the index of the order.
SmCreateOrder ==
    /\ Len(sm.orders) < MaxMachineOrders
    /\ sm' = [sm EXCEPT !.raised = "none",
                        !.orders = Append(@, [state |-> "CREATED", created_at |-> sm.now,
                                              updated_at |-> sm.now,
                                              history |-> <<[state |-> "CREATED",
                                                             timestamp |-> sm.now]>>])]

\* transition that records the request before it looks at the edge
SmTransitionVariant(order_id, new_state) ==
    /\ order_id <= Len(sm.orders) => Len(sm.orders[order_id].history) < MaxHistory
    /\ sm' = IF order_id > Len(sm.orders)
             THEN [sm EXCEPT !.raised = "KeyError"]
             ELSE [sm EXCEPT !.raised = "InvalidStateTransition",
                             !.orders[order_id].history =
                                    Append(@, [state |-> new_state, timestamp |-> sm.now])]

\* transition(order_id, new_state): it raises, or it changes the order, calls
\* the listener and, for a completed state, _fire_on_order_completed.
SmTransition(order_id, new_state) ==
    /\ order_id <= Len(sm.orders) => Len(sm.orders[order_id].history) < MaxHistory
    /\ sm' =
        IF order_id > Len(sm.orders)
        THEN [sm EXCEPT !.raised = "KeyError"]
        ELSE LET old_state == sm.orders[order_id].state
             IN  IF \/ old_state \in TERMINAL_STATES
                    \/ old_state \notin DOMAIN VALID_TRANSITIONS
                    \/ new_state \notin VALID_TRANSITIONS[old_state]
                 THEN [sm EXCEPT !.raised = "InvalidStateTransition"]
                 ELSE [sm EXCEPT !.raised = "none",
                                 !.orders[order_id].state = new_state,
                                 !.orders[order_id].updated_at = sm.now,
                                 !.orders[order_id].history =
                                    Append(@, [state |-> new_state, timestamp |-> sm.now]),
                                 !.listener_calls = @ + 1,
                                 !.completed_calls =
                                    IF new_state \in COMPLETED_STATES THEN @ + 1 ELSE @]

\* time.time() moves on.
SmTick ==
    /\ sm.now < MaxMachineClock
    /\ sm' = [sm EXCEPT !.now = @ + 1]

----------------------------------------------------------------------------
(* PyramidManager (kats/order/pyramid_manager.py), DEFAULT_PYRAMID_CONFIG *)

max_stages == 3
\* stage_ratios and profit_trigger_pct by stage, both in percent
stage_ratios == [stage \in 0..2 |-> CASE stage = 0 -> 50 [] stage = 1 -> 30 [] OTHER -> 20]
profit_trigger_pct == [stage \in 0..2 |-> CASE stage = 0 -> 0 [] stage = 1 -> 5 [] OTHER -> 10]

\* Bound: the planned quantity of a trade.
MaxPlanned == 7

\* The positions and prices check_pyramid_opportunity is asked about.
PyramidOrderTypes == {"BUY", "SELL"}
PyramidEntryPrices == {0, 100}
PyramidPrices == {95, 100, 104, 105, 110}

NoOpportunity == [offered |-> FALSE, stage |-> 0, quantity |-> 0]

\* check_pyramid_opportunity that asks for the trigger of the stage reached
CheckPyramidOpportunityVariant(current_stage, position, current_price) ==
    LET avg_entry_price == position.avg_entry_price
        total_planned_qty == position.total_planned_quantity
        next_stage == current_stage + 1
    IN  IF position.order_type # "BUY" THEN NoOpportunity
        ELSE IF avg_entry_price <= 0 \/ total_planned_qty <= 0 THEN NoOpportunity
        ELSE IF current_price - avg_entry_price <= 0 THEN NoOpportunity
        ELSE IF next_stage >= max_stages THEN NoOpportunity
        ELSE IF (current_price - avg_entry_price) * 100
                    < profit_trigger_pct[current_stage] * avg_entry_price
        THEN NoOpportunity
        ELSE [offered |-> TRUE, stage |-> next_stage,
              quantity |-> Max2(1, (total_planned_qty * stage_ratios[next_stage]) \div 100)]

\* check_pyramid_opportunity(position, current_price) for a trade at
\* current_stage: None, or the stage and quantity of the add-on.  profit_pct
\* = (current_price - avg) / avg * 100 is compared without the division.
CheckPyramidOpportunity(current_stage, position, current_price) ==
    LET avg_entry_price == position.avg_entry_price
        total_planned_qty == position.total_planned_quantity
        next_stage == current_stage + 1
    IN  IF position.order_type # "BUY" THEN NoOpportunity
        ELSE IF avg_entry_price <= 0 \/ total_planned_qty <= 0 THEN NoOpportunity
        ELSE IF current_price - avg_entry_price <= 0 THEN NoOpportunity
        ELSE IF next_stage >= max_stages THEN NoOpportunity
        ELSE IF (current_price - avg_entry_price) * 100
                    < profit_trigger_pct[next_stage] * avg_entry_price
        THEN NoOpportunity
        ELSE [offered |-> TRUE, stage |-> next_stage,
              quantity |-> Max2(1, (total_planned_qty * stage_ratios[next_stage]) \div 100)]

\* check_pyramid_opportunity is called for the trade; the call and what it
\* returned are kept in checked and last.
PyCheckPyramidOpportunity(order_type, avg_entry_price, current_price) ==
    LET position == [order_type |-> order_type, avg_entry_price |-> avg_entry_price,
                     total_planned_quantity |-> pyr.total]
    IN  pyr' = [pyr EXCEPT
                  !.checked = [called |-> TRUE, position |-> position,
                               current_price |-> current_price],
                  !.last = CheckPyramidOpportunity(pyr.current_stage, position, current_price)]

\* The add-on last offered is bought and record_stage_execution(trade_id,
\* stage, fill_price, fill_quantity) is called with its stage and quantity.
PyRecordStageExecution ==
    /\ pyr.last.offered
    /\ pyr' = [pyr EXCEPT !.current_stage = pyr.last.stage,
                          !.stages_executed = Append(@, [stage |-> pyr.last.stage,
                                                         fill_quantity |-> pyr.last.quantity]),
                          !.last = NoOpportunity]

\* remove_trade(trade_id); the next trade is planned with total shares.
PyRemoveTrade(total) ==
    pyr' = [total |-> total, current_stage |-> 0, stages_executed |-> <<>>,
            checked |-> [called |-> FALSE,
                         position |-> [order_type |-> "BUY", avg_entry_price |-> 0,
                                       total_planned_quantity |-> 0],
                         current_price |-> 0],
            last |-> NoOpportunity]

----------------------------------------------------------------------------
(* Specifications *)

\* Nothing has been asked of the modules that stand on their own.
OtherInit ==
    /\ rl = [tokens |-> MaxTokens * TokenScale, last_refill |-> 0, now |-> 0, holder |-> 0,
             wake |-> 0, waiters |-> <<>>, returned |-> <<>>]
    /\ ws = [pc |-> "idle", running |-> FALSE, has_ws |-> FALSE, reconnect_count |-> 0,
             wait |-> 0, after |-> "call", subs |-> {}, todo |-> {}, keys |-> {}, replayed |-> {},
             asked |-> <<>>]
    /\ vim = [states |-> [s \in Stocks |-> "NORMAL"], cooling |-> [s \in Stocks |-> 0],
              tasks |-> [s \in Stocks |-> <<>>], last |-> [s \in Stocks |-> ""]]
    /\ cache = [now |-> 0, prices |-> [s \in Stocks |-> -1],
                orderbooks |-> [s \in Stocks |-> -1],
                vi_status |-> [s \in Stocks |-> "UNKNOWN"],
                last_update |-> [s \in Stocks |-> -1]]
    /\ pyr = [total |-> 1, current_stage |-> 0, stages_executed |-> <<>>,
              checked |-> [called |-> FALSE,
                           position |-> [order_type |-> "BUY", avg_entry_price |-> 0,
                                         total_planned_quantity |-> 0],
                           current_price |-> 0],
              last |-> NoOpportunity]
    /\ sm = [orders |-> <<>>, now |-> 0, listener_calls |-> 0, completed_calls |-> 0,
             raised |-> "none"]
    /\ rq = [pc |-> "idle", calls |-> 0, attempt |-> 0, sent |-> 0, acquired |-> 0,
             results |-> <<>>, sleeps |-> <<>>]
    /\ mg_calls = [c \in 1..MaxMarginCalls |->
                        [pc |-> "idle", order_type |-> "", stock_code |-> "", gross |-> 0,
                         required |-> 0, ret |-> "none"]]
    /\ paper_fill = [called |-> FALSE, order_type |-> "BUY", quantity |-> 0,
                     book |-> NoBook,
                     result |-> ExecuteVirtualOrder(EmptyMap,
                                   [stock_code |-> "005930", order_type |-> "BUY",
                                    quantity |-> 0, price |-> 0], NoBook)]

InitOrders == LockInit /\ KillInit /\ DdInit /\ RiskInit /\ OrderInit /\ OtherInit
Init == InitOrders /\ trade_mode = "PAPER"

\* The global position lock alone.
SpecLock ==
    Init /\ [][LockNext /\ UNCHANGED <<killVars, ddVars, riskVars, orderVars, otherVars>>]_vars

\* The kill switch alone.
SpecKill ==
    Init /\ [][KillNext /\ UNCHANGED <<lockVars, ddVars, riskVars, orderVars, otherVars>>]_vars

\* The drawdown protocol alone.
SpecDD ==
    Init /\ [][DdNext /\ UNCHANGED <<lockVars, killVars, riskVars, orderVars, otherVars>>]_vars

\* The risk manager with its sub-modules.
SpecRisk == Init /\ [][RiskNext /\ UNCHANGED <<orderVars, otherVars>>]_vars

\* A trading session: the drawdown protocol is evaluated with the PnL of the
\* moment, signals of every kind are validated against every PnL, the clock
\* runs, and reset_daily ends the session.
SessionSignals ==
    [stock_code : RiskStocks, action : {"BUY", "SELL"}, strategy_code : {"VB"},
     entry_price : {1000}, stop_loss : {900}, grade : {"B"}, confidence : {2, 5},
     sector : {"IT"}]
SessionContexts ==
    [current_positions : {<<>>}, regime : {"BULL"}, total_capital : {10000},
     daily_pnl_pct : {0, -3}, monthly_pnl_pct : {0}, cumulative_pnl_pct : {0, -10},
     current_capital : {0}]
\* Bound: the last tick of the clock in a session (16:30 of its second day).
MaxSessionNow == 5
SessionNext ==
    \/ \E signal \in SessionSignals, ctx \in SessionContexts : VsStart(signal, ctx)
    \/ \E t \in TaskIds, result \in BalanceResults : VsBalanceReturned(t, result)
    \/ \E d \in {0, -3} :
            DdEvaluateAndRespond(d, 0, 0) /\ UNCHANGED <<lockVars, killVars, riskVars>>
    \/ dd_now < MaxSessionNow /\ DdTick /\ UNCHANGED <<lockVars, killVars, riskVars>>
    \/ RmResetDaily(10000)
SpecSession == Init /\ [][SessionNext /\ UNCHANGED <<orderVars, otherVars>>]_vars

\* The order manager and tracker in either trade mode, on the risk manager.
SpecOrders == InitOrders /\ [][OrderNext /\ UNCHANGED otherVars]_vars

\* Orders placed while the kill switch watches the capital.
SpecHalt == InitOrders /\ [][HaltNext /\ UNCHANGED otherVars]_vars

\* Orders placed and filled.
SpecFills == InitOrders /\ [][FillNext /\ UNCHANGED otherVars]_vars

\* Paper fills of orders of any side and quantity against any quote.
SpecPaper ==
    /\ Init
    /\ [][/\ \E order_type \in {"BUY", "SELL"}, quantity \in 1..MaxQuantity,
                best_price \in {1000, 1001}, best_volume \in 0..MaxVolume,
                present \in BOOLEAN :
                  PtExecuteVirtualOrder(order_type, quantity,
                      [present |-> present, best_price |-> best_price,
                       best_volume |-> best_volume])
          /\ UNCHANGED <<lockVars, killVars, ddVars, riskVars, orderVars, mg_calls, rl, rq, ws, vim, cache, sm, pyr>>
       ]_vars

\* The margin guard with a constant balance: concurrent validate_order
\* calls, releases, the cache ageing, the clock.
MarginNext ==
    \/ \E c \in 1..MaxMarginCalls, price \in {900, 1000}, order_type \in {"BUY", "SELL"} :
            MgValidateOrder(c, "005930", 1, price, order_type)
    \/ \E c \in 1..MaxMarginCalls, ok \in BOOLEAN : MgBalanceReturned(c, ok)
    \/ \E a \in {901, 1002} : RmOnPositionClosed("005930", "VB", a) /\ UNCHANGED mg_calls
    \/ MgSetBalance(MarginBalance) /\ UNCHANGED mg_calls
    \/ MgCacheExpires /\ UNCHANGED mg_calls
    \/ MonoTick /\ UNCHANGED mg_calls
SpecMargin == Init /\ [][MarginNext /\ UNCHANGED <<orderVars, paper_fill, rl, rq, ws, vim, cache, sm, pyr>>]_vars

\* The rate limiter with several callers.
SpecRate ==
    /\ Init
    /\ [][/\ \/ \E c \in 1..MaxCallers : RlAcquire(c)
             \/ RlResume
             \/ RlTick
          /\ UNCHANGED <<lockVars, killVars, ddVars, riskVars, orderVars,
                         paper_fill, mg_calls, rq, ws, vim, cache, sm, pyr>>
       ]_vars

\* One caller of request() after the other; every attempt in flight ends,
\* in a response or in the timeout of the session, and every sleep ends.
SpecRequest ==
    /\ Init
    /\ [][/\ \/ \E prepared \in BOOLEAN : RqRequest(prepared)
             \/ \E r \in AttemptResults : RqAttemptDone(r)
             \/ RqSleepDone
          /\ UNCHANGED <<lockVars, killVars, ddVars, riskVars, orderVars,
                         paper_fill, mg_calls, rl, ws, vim, cache, sm, pyr>>
       ]_vars
    /\ WF_vars(/\ \E r \in AttemptResults : RqAttemptDone(r)
               /\ UNCHANGED <<lockVars, killVars, ddVars, riskVars, orderVars,
                              paper_fill, mg_calls, rl, ws, vim, cache, sm, pyr>>)
    /\ WF_vars(/\ RqSleepDone
               /\ UNCHANGED <<lockVars, killVars, ddVars, riskVars, orderVars,
                              paper_fill, mg_calls, rl, ws, vim, cache, sm, pyr>>)

\* The WebSocket client with its users and its server.
SpecSocket ==
    /\ Init
    /\ [][/\ \/ WsConnect
             \/ \E ok \in BOOLEAN : WsConnected(ok)
             \/ WsReplayStep
             \/ \E clean \in BOOLEAN : WsLost(clean)
             \/ WsSleepDone
             \/ WsDisconnect
             \/ \E p \in Pairs : WsSubscribe(p)
             \/ \E p \in Pairs : WsUnsubscribe(p)
          /\ UNCHANGED <<lockVars, killVars, ddVars, riskVars, orderVars,
                         paper_fill, mg_calls, rl, rq, vim, cache, sm, pyr>>
       ]_vars

\* Orders placed, filled, cancelled and modified to another price.
SpecModify ==
    /\ InitOrders
    /\ [][/\ \/ \E signal \in OrderSignals, ctx \in OrderContexts, book \in OrderBooks :
                    OmPlaceOrder(signal, ctx, book)
             \/ \E t \in om_tasks, ok \in BOOLEAN : OmRestPlaceReturned(t, ok)
             \/ \E id \in 1..Len(orders) : OmCancelOrder(id)
             \/ \E t \in om_tasks, ok \in BOOLEAN : OmRestCancelReturned(t, ok)
             \/ \E id \in 1..Len(orders) : OmModifyOrder(id, 990)
             \/ \E t \in om_tasks, ok \in BOOLEAN : OmRestModifyReturned(t, ok)
             \/ \E id \in 1..Len(orders), q \in 1..2 : TrOnFillNotification(id, q)
             \/ \E b \in Balances \ {0} : MgSetBalance(b) /\ UNCHANGED orderVars
          /\ UNCHANGED otherVars
       ]_vars

\* The pyramid manager following one trade after the other.
SpecPyramid ==
    /\ Init
    /\ [][/\ \/ \E order_type \in PyramidOrderTypes, avg_entry_price \in PyramidEntryPrices,
                   current_price \in PyramidPrices :
                    PyCheckPyramidOpportunity(order_type, avg_entry_price, current_price)
             \/ PyRecordStageExecution
             \/ \E total \in 0..MaxPlanned : PyRemoveTrade(total)
          /\ UNCHANGED <<lockVars, killVars, ddVars, riskVars, orderVars,
                         paper_fill, mg_calls, rl, rq, ws, vim, cache, sm>>
       ]_vars

\* The state machine asked for every transition of every order id.
SpecMachine ==
    /\ Init
    /\ [][/\ \/ SmCreateOrder
             \/ \E order_id \in 1..(MaxMachineOrders + 1), new_state \in OrderStates :
                    SmTransition(order_id, new_state)
             \/ SmTick
          /\ UNCHANGED <<lockVars, killVars, ddVars, riskVars, orderVars,
                         paper_fill, mg_calls, rl, rq, ws, vim, cache, pyr>>
       ]_vars

\* The cache written by the three feeds of its stocks while time passes.
SpecCache ==
    /\ Init
    /\ [][/\ \/ \E stock_code \in Stocks : CaOnPriceUpdate(stock_code)
             \/ \E stock_code \in Stocks : CaOnOrderbookUpdate(stock_code)
             \/ \E stock_code \in Stocks, vi_cls \in {"1", "2", "0"} :
                    CaOnViUpdate(stock_code, vi_cls)
             \/ CaClear
             \/ CaTick
          /\ UNCHANGED <<lockVars, killVars, ddVars, riskVars, orderVars,
                         paper_fill, mg_calls, rl, rq, ws, vim, sm, pyr>>
       ]_vars

\* The VI monitor: events of every kind for every stock, timers running out.
SpecVi ==
    /\ Init
    /\ [][/\ \/ \E stock_code \in Stocks, vi_cls \in {"1", "2", "0"} :
                    ViOnData(stock_code, vi_cls)
             \/ \E stock_code \in Stocks, task \in 1..MaxTimers :
                    ViTransitionToNormal(stock_code, task)
             \/ ViShutdown
          /\ UNCHANGED <<lockVars, killVars, ddVars, riskVars, orderVars,
                         paper_fill, mg_calls, rl, rq, ws, sm, pyr>>
       ]_vars

\* The tracking loop keeps running its rounds and every REST call in flight
\* is answered.
SpecSweep ==
    /\ InitOrders
    /\ [][SweepNext /\ UNCHANGED otherVars]_vars
    /\ SF_vars(TrCheckPendingOrders /\ UNCHANGED otherVars)
    /\ WF_vars(UNCHANGED otherVars /\ \E t \in om_tasks : TrRestCancelReturned(t, TRUE))
    /\ WF_vars(UNCHANGED otherVars /\ \E t \in om_tasks, ok \in BOOLEAN :
                                        TrRestAmendReturned(t, ok))
    /\ WF_vars(UNCHANGED otherVars /\ \E t \in om_tasks : OmRestCancelReturned(t, TRUE))
    /\ WF_vars(UNCHANGED otherVars /\ \E t \in om_tasks, ok \in BOOLEAN :
                                        OmRestModifyReturned(t, ok))
    /\ WF_vars(UNCHANGED otherVars /\ \E t \in om_tasks : OmRestPlaceReturned(t, TRUE))

----------------------------------------------------------------------------
(* Properties of the global position lock *)

\* C2: for every stock with a reservation, the sum of all strategies'
\* reserved percentages is at most the hard cap of the grade the lock holds
\* for that stock, whatever grades the callers passed.
LockSumWithinGradeCap ==
    \A s \in DOMAIN reservations :
        TotalPct(reservations[s]) <= GetCap(reservations[s].grade)

\* C7: in every lock state, a successful check_and_reserve(stock, grade, pct,
\* strategy) directly followed by release(stock, strategy) gives back, for
\* every stock and strategy, the percentage that was reserved before.
ReserveReleaseRestores ==
    \A s \in Stocks, g \in Grades, p \in Pcts, x \in Strategies :
        LET r == CheckAndReserve(reservations, s, g, p, x)
        IN  r.ok =>
                \A s2 \in Stocks, x2 \in Strategies :
                    ReservedPct(Release(r.res, s, x).res, s2, x2)
                        = ReservedPct(reservations, s2, x2)

----------------------------------------------------------------------------
(* Properties of the daily kill switch *)

\* C4: once check() has returned false on a breach, no later check() returns
\* true until reset_daily, whether or not the shutdown task has run.
CheckStaysFalseAfterBreach ==
    ks_obs.breach_seen => ks_obs.last_check # "true"

----------------------------------------------------------------------------
(* Properties of the drawdown protocol *)

\* C8: no evaluate_and_respond call lowers the severity of the drawdown
\* level, whatever its inputs, and a step that lowers it is a reset_daily, a
\* reset_monthly, a record_paper_trade_result or a force_resume.
SeverityNeverDecreases ==
    [][ /\ (\E d \in DailyPnls, m \in MonthlyPnls, c \in CumulativePnls :
                DdEvaluateAndRespond(d, m, c)) => Severity(dd'.level) >= Severity(dd.level)
        /\ Severity(dd'.level) < Severity(dd.level) =>
                \/ DdResetDaily
                \/ DdResetMonthly
                \/ DdForceResume
                \/ DdRecordPaperTradeResult(TRUE) ]_vars

\* An evaluate_and_respond that classified its inputs below the current
\* level (no timed halt was running) and kept the level.
MilderInputsKeptLevel ==
    /\ dd_obs \in DrawdownLevels
    /\ Severity(dd_obs) < Severity(dd.level)
    /\ dd.level \in {"YELLOW", "ORANGE", "RED"}

----------------------------------------------------------------------------
(* Properties of the risk pipeline *)

\* C6: a validate_signal call rejected at step 8 (VI) or step 9 (cash) has
\* removed from the lock the reservation it added in step 7 and nothing
\* else: what the same strategy and the other strategies held before is kept.
RejectedCallKeepsLock ==
    vs_obs.step \in {8, 9} => vs_obs.kept

----------------------------------------------------------------------------
(* Properties of the orders *)

\* The edges of the order life cycle: a terminal state has none.
PermittedEdge(a, b) ==
    CASE a = "CREATED" -> b \in {"SUBMITTED", "REJECTED"}
      [] a = "SUBMITTED" ->
            b \in {"PARTIAL_FILLED", "FILLED", "CANCEL_REQUESTED", "REJECTED", "ERROR"}
      [] a = "PARTIAL_FILLED" -> b \in {"FILLED", "CANCEL_REQUESTED", "AMEND_REQUESTED"}
      [] a = "CANCEL_REQUESTED" -> b \in {"CANCELLED", "FILLED"}
      [] a = "AMEND_REQUESTED" -> b \in {"SUBMITTED", "REJECTED"}
      [] OTHER -> FALSE

\* C1: under every interleaving of place_order, cancel_order, modify_order,
\* cancel_all_pending, the tracker's sweeps, the answers of the REST calls and
\* fill notifications, the history of every order starts with CREATED, each
\* pair of consecutive states in it is a permitted edge, and no state follows
\* a terminal one; the order's state is the last entry.
HistoryIsValidPath ==
    \A i \in 1..Len(orders) :
        LET h == orders[i].history
        IN  /\ h[1] = "CREATED"
            /\ \A j \in 1..(Len(h) - 1) : PermittedEdge(h[j], h[j + 1])
            /\ orders[i].state = h[Len(h)]

\* A LIVE order that was partly filled, amended by modify_order, and filled
\* while its cancellation waited for the broker.
FilledWhileCancelling ==
    \E i \in 1..Len(orders) :
        orders[i].history = <<"CREATED", "SUBMITTED", "PARTIAL_FILLED", "AMEND_REQUESTED",
                              "SUBMITTED", "CANCEL_REQUESTED", "FILLED">>

\* C3: from the step in which check() has returned false on a breach until
\* reset_daily, no step creates an order.
NoOrderAfterBreach ==
    [][ (ks_obs.breach_seen /\ ks_obs'.breach_seen) => Len(orders') = Len(orders) ]_vars

\* C5: when every order placed for a stock by a strategy is a BUY that went
\* CREATED, SUBMITTED, CANCEL_REQUESTED, CANCELLED, the lock holds nothing
\* for that strategy on the stock and the margin guard no pending
\* reservation for the stock.
CancelledBuyLeavesNoReservation ==
    \A i \in 1..Len(orders) :
        LET o == orders[i]
            same == {j \in 1..Len(orders) : /\ orders[j].stock_code = o.stock_code
                                            /\ orders[j].strategy_code = o.strategy_code}
        IN  (\A j \in same :
                /\ orders[j].order_type = "BUY"
                /\ orders[j].history = <<"CREATED", "SUBMITTED", "CANCEL_REQUESTED",
                                         "CANCELLED">>)
            => /\ ReservedPct(reservations, o.stock_code, o.strategy_code) = 0
               /\ \A k \in 1..Len(mg.pending) : mg.pending[k].key[1] # o.stock_code

\* C9: every position the order manager and the paper account store has a
\* quantity of at least 0 and a total cost of average price times quantity.
PositionsWellFormed ==
    /\ \A s \in DOMAIN open_positions :
            LET p == open_positions[s]
            IN  /\ p.quantity >= 0
                /\ p.total_cost = (p.avg_entry_price.n * p.quantity) \div p.avg_entry_price.d
    /\ \A s \in DOMAIN paper_positions :
            LET p == paper_positions[s]
            IN  /\ p.quantity >= 0
                /\ p.total_cost = (p.avg_price.n * p.quantity) \div p.avg_price.d

\* Whether the positions OP2 are the positions OP after a fill of q shares
\* of the stock at price p: a BUY adds q at the weighted average, a SELL
\* takes q from a held position, which is gone when nothing is left.
FillApplied(OP, OP2, stock_code, order_type, q, p) ==
    LET held == stock_code \in DOMAIN OP
        Q == IF held THEN OP[stock_code].quantity ELSE 0
        A == IF held THEN OP[stock_code].avg_entry_price ELSE Zero
    IN  IF order_type = "BUY"
        THEN /\ stock_code \in DOMAIN OP2
             /\ OP2[stock_code].quantity = Q + q
             /\ OP2[stock_code].avg_entry_price.n * (A.d * (Q + q))
                    = OP2[stock_code].avg_entry_price.d * (Q * A.n + q * p * A.d)
        ELSE IF ~held \/ Q - q <= 0 THEN stock_code \notin DOMAIN OP2
        ELSE /\ stock_code \in DOMAIN OP2
             /\ OP2[stock_code].quantity = Q - q

\* C10: a step in which the filled quantity of an order grows by q, the fill
\* of a paper order or a fill notification for a LIVE order, partial or full,
\* applies a fill of q shares at the fill price to the open position of the
\* order's stock.
FillUpdatesPosition ==
    [][ \A i \in 1..Len(orders') :
            LET before == IF i <= Len(orders) THEN orders[i].filled_quantity ELSE 0
                o == orders'[i]
            IN  o.filled_quantity > before =>
                    FillApplied(open_positions, open_positions', o.stock_code,
                                o.order_type, o.filled_quantity - before, o.fill_price)
      ]_vars

\* C11: as long as a validated BUY order is pending (SUBMITTED or
\* PARTIAL_FILLED) the margin guard holds a pending reservation of its
\* required amount, one for each such order, whatever other order is filled
\* meanwhile; and when every order placed is a BUY that has been filled, no
\* pending reservation is left.
ReservationLivesWithOrder ==
    LET Required(i) == RequiredAmount(orders[i].quantity, orders[i].price)
        PendingBuys(a) == {i \in 1..Len(orders) :
                              /\ orders[i].order_type = "BUY"
                              /\ orders[i].state \in {"SUBMITTED", "PARTIAL_FILLED"}
                              /\ Required(i) = a}
        Held(a) == {k \in 1..Len(mg.pending) : mg.pending[k].amount = a}
    IN  /\ \A i \in 1..Len(orders) :
                Cardinality(Held(Required(i))) >= Cardinality(PendingBuys(Required(i)))
        /\ (/\ orders # <<>>
            /\ \A i \in 1..Len(orders) :
                    orders[i].order_type = "BUY" /\ orders[i].state = "FILLED")
           => mg.pending = <<>>

\* Whether order i is pending at an age of at least the TTL of its strategy.
ExpiredPending(i) ==
    /\ i <= Len(orders)
    /\ orders[i].state \in {"SUBMITTED", "PARTIAL_FILLED"}
    /\ wall - orders[i].created_at >= STRATEGY_TTL[orders[i].strategy_code]

OrderSettled(i) == i <= Len(orders) /\ orders[i].state \in {"CANCELLED", "FILLED"}

\* C12: an order that is SUBMITTED or PARTIAL_FILLED at an age of at least
\* the TTL of its strategy is CANCELLED or FILLED at some later time, when
\* the tracking loop keeps running and every cancel request is answered.
ExpiredOrderIsCancelled ==
    \A i \in 1..MaxOrders : ExpiredPending(i) ~> OrderSettled(i)

\* Whether the last paper fill was called with a best quote of positive price
\* and volume, and what a fifth of that volume is in whole shares.
QuotedFill ==
    /\ paper_fill.called
    /\ paper_fill.book.present
    /\ paper_fill.book.best_price > 0
    /\ paper_fill.book.best_volume > 0

\* The returned fill price is exactly the best price times 1.001 (BUY) or
\* 0.999 (SELL).
BasePriceExactly ==
    paper_fill.result.fill_price_x100 * 10 =
        paper_fill.book.best_price * (IF paper_fill.order_type = "BUY" THEN 1001 ELSE 999)

\* The returned fill price is the best price times 1.001 (BUY) or 0.999
\* (SELL), rounded to 1/100 KRW.
BasePriceRounded ==
    LET exact == paper_fill.book.best_price
                    * (IF paper_fill.order_type = "BUY" THEN 1001 ELSE 999)
        d == paper_fill.result.fill_price_x100 * 10 - exact
    IN  -5 <= d /\ d <= 5

Returns(c) == mg_calls'[c] # mg_calls[c] /\ mg_calls'[c].ret # "none"

\* C14: with a constant balance the pending reservations never sum to more
\* than the balance; a validate_order call that returns rejected, or that is
\* for a SELL, leaves the reservations as they were; and a BUY whose required
\* amount, the gross amount plus 0.195% of it, is more than the balance less
\* the pending total is rejected.
CashAsStated ==
    [][ /\ SumAmounts(mg'.pending) <= MarginBalance
        /\ \A c \in 1..MaxMarginCalls :
              Returns(c) =>
                LET call == mg_calls'[c]
                IN  /\ (call.order_type = "SELL" \/ call.ret = "rejected")
                            => mg'.pending = mg.pending
                    /\ (/\ call.order_type = "BUY"
                        /\ call.gross * 100195 >
                                (MarginBalance - SumAmounts(mg.pending)) * 100000)
                            => call.ret = "rejected"
      ]_vars

\* C14, amended: the same with the required amount the code computes, the
\* gross amount plus 0.21% of it cut to whole KRW.
CashNeverOvercommitted ==
    [][ /\ SumAmounts(mg'.pending) <= MarginBalance
        /\ \A c \in 1..MaxMarginCalls :
              Returns(c) =>
                LET call == mg_calls'[c]
                IN  /\ (call.order_type = "SELL" \/ call.ret = "rejected")
                            => mg'.pending = mg.pending
                    /\ (/\ call.order_type = "BUY"
                        /\ call.gross + (call.gross * 210) \div 100000 >
                                MarginBalance - SumAmounts(mg.pending))
                            => call.ret = "rejected"
      ]_vars

\* Two reservations are pending, a third BUY that the balance alone would
\* have covered has been rejected, and another call is waiting for the
\* balance.
RejectedForPendingCash ==
    /\ Len(mg.pending) = 2
    /\ mg.cached_balance = MarginBalance
    /\ mg_calls[1].order_type = "BUY" /\ mg_calls[1].ret = "rejected"
    /\ mg_calls[1].required <= MarginBalance
    /\ mg_calls[2].pc = "balance"

\* C15: the token count stays between 0 and the bucket size; a step in which
\* an acquire() returns takes exactly one token from what the bucket holds
\* after the refill at that time; and of the acquire() calls that have
\* returned, those within any stretch of T ticks number at most the bucket
\* size plus what is refilled in T ticks.
TokenBucketHolds ==
    [][ /\ 0 <= rl'.tokens /\ rl'.tokens <= MaxTokens * TokenScale
        /\ Len(rl'.returned) > Len(rl.returned) =>
                /\ Len(rl'.returned) = Len(rl.returned) + 1
                /\ rl'.tokens = Min2(MaxTokens * TokenScale,
                                     rl.tokens + (rl.now - rl.last_refill)) - TokenScale
        /\ \A i, j \in 1..Len(rl'.returned) :
                i <= j => (j - i + 1) * TokenScale
                            <= MaxTokens * TokenScale + (rl'.returned[j] - rl'.returned[i])
      ]_vars

\* The bucket was emptied at once, a caller slept for a token and took it,
\* another sleeps now and a third waits for the lock.
SleeperTookItsToken ==
    /\ Len(rl.returned) = MaxTokens + 1
    /\ rl.returned[MaxTokens] = 0
    /\ rl.returned[MaxTokens + 1] = TokenScale
    /\ rl.holder # 0
    /\ rl.waiters # <<>>

\* The positions of a request() call that has not returned or raised.
RqInFlight == rq.pc \in {"http", "sleep"}
RqEnded == rq.pc \in {"returned", "api_error", "net_error"}
\* What a request() call has done so far is what the retry loop allows.
RqBounded ==
    LET n == Len(rq.results)
        retried(i) == rq.results[i] \in {"EGW00200", "EGW00201", "ClientError", "TimeoutError"}
    IN  /\ n <= 3 /\ rq.attempt <= 2
        /\ rq.sleeps \in {<<>>, <<2>>, <<2, 4>>}
        /\ \A i \in 1..(n - 1) : retried(i)
        /\ rq.pc = "sleep" => retried(n) /\ Len(rq.sleeps) = n
        /\ rq.pc = "http" => Len(rq.sleeps) = n /\ rq.attempt = n
        /\ RqEnded =>
              /\ Len(rq.sleeps) = n - 1
              /\ rq.pc = "returned" <=> rq.results[n] = "0"
              /\ rq.pc = "net_error" <=> n = 3 /\ rq.results[n] \in {"ClientError", "TimeoutError"}
              /\ rq.results[n] = "EGW00123" => rq.pc = "api_error"
              /\ rq.pc = "api_error" /\ rq.results[n] # "EGW00123" => n = 3
\* C16: a request() call makes at most 3 attempts, sleeps 2 s and then 4 s
\* between them, goes on only after a transport error or a retryable code,
\* returns on the first rt_cd "0", raises KISAPIError at once on any other
\* code, and always comes to an end.
RequestEndsWithinThreeAttempts == [](RqBounded) /\ (RqInFlight ~> RqEnded)

\* A call that was answered with a retryable code, then lost the connection,
\* and raised KISAPIError for a code that is not retryable on its third attempt.
ThirdAttemptRaised ==
    /\ rq.pc = "api_error"
    /\ rq.results = <<"EGW00200", "TimeoutError", "EGW00123">>
    /\ rq.sleeps = <<2, 4>>

\* C17: every attempt request() sends has a token acquisition of its own, so
\* that the attempts sent never outnumber the tokens taken from the limiter.
EveryAttemptHasItsToken == rq.sent <= rq.acquired

\* C18: a connection attempt that follows a loss of the connection follows a
\* sleep, the sleep is min(2^attempt, 60) seconds, the counter is 0 while
\* connected, and no attempt is made at a count of 30.
ReconnectBacksOff ==
    /\ ws.pc = "connecting" => ws.after # "close" /\ ws.reconnect_count < _MAX_RECONNECTS
    /\ ws.pc = "sleep" => ws.wait = Min2(2 ^ ws.reconnect_count, _MAX_BACKOFF_SECONDS)
    /\ ws.pc \in {"open", "replay"} => ws.reconnect_count = 0

\* C19: a step of the replay after a reconnect sends a subscribe message
\* for a pair that is active and leaves the set of active pairs as it is.
ReplayKeepsActiveSet == [][WsReplayStep => ws'.subs = ws.subs]_vars

\* C20: a stock whose last processed event is TRIGGERED is in state
\* VI_TRIGGERED, whatever timers were started before and whenever they run
\* out, and no stock has more than one cooling timer pending.
TriggeredHoldsUntilReleased ==
    \A s \in Stocks :
        /\ vim.last[s] = "1" => vim.states[s] = "VI_TRIGGERED"
        /\ Cardinality({i \in 1..Len(vim.tasks[s]) : vim.tasks[s][i] = "sleeping"}) <= 1

\* A stock halted again after a release, the timer of the release cancelled,
\* while the timer of the other stock ran out.
StaleTimerCancelled ==
    /\ vim.last["005930"] = "1" /\ vim.tasks["005930"] = <<"cancelled">>
    /\ vim.states["000660"] = "NORMAL" /\ vim.tasks["000660"] = <<"done">>

\* C21: a stock whose cached price is older than 3 s is not fresh, neither
\* by is_data_fresh nor in its snapshot, whatever was written for it since;
\* and likewise a stock whose cached order book is older than 3 s.
StalePriceIsNotFresh ==
    \A s \in Stocks :
        LET stale(t) == t # -1 /\ cache.now - t > MAX_AGE_SEC
        IN  stale(cache.prices[s]) \/ stale(cache.orderbooks[s])
                => ~IsDataFresh(cache, s) /\ ~Snapshot(cache, s).data_fresh

InvalidTransitionChangesNothing ==
    [][\A order_id \in 1..Len(sm.orders), new_state \in OrderStates :
            (/\ SmTransition(order_id, new_state)
             /\ \/ ~PermittedEdge(sm.orders[order_id].state, new_state)
                \/ sm.orders[order_id].state \in TERMINAL_STATES)
                => /\ sm'.raised = "InvalidStateTransition"
                   /\ sm'.orders = sm.orders
                   /\ sm'.listener_calls = sm.listener_calls
                   /\ sm'.completed_calls = sm.completed_calls]_vars

\* A request refused for an order that had been filled at an earlier time.
RefusedAtTerminalState ==
    /\ sm.raised = "InvalidStateTransition"
    /\ Len(sm.orders) >= 1
    /\ sm.orders[1].state = "FILLED"
    /\ sm.orders[1].updated_at < sm.now
    /\ sm.listener_calls = 2 /\ sm.completed_calls = 1

\* Bound: the quantities a fill notification reports.
MaxFillQty == 2

\* C24: on_fill_notification for a known order makes it FILLED from
\* SUBMITTED, PARTIAL_FILLED or CANCEL_REQUESTED when nothing remains; when
\* something remains a SUBMITTED order becomes PARTIAL_FILLED and a
\* PARTIAL_FILLED order keeps its state and takes the filled and remaining
\* quantities of the notification; in every other case, an unknown id
\* included, no order changes its state and the call returns.
FillNotificationByCase ==
    \A order_id \in 1..(MaxOrders + 1), tot \in 0..MaxFillQty, rmn \in 0..MaxFillQty :
        LET data == [order_id |-> order_id, tot_ccld_qty |-> tot, rmn_qty |-> rmn,
                     ccld_prc |-> 1000]
            after == OnFillNotification(orders, data)
        IN  /\ Len(after) = Len(orders)
            /\ \A j \in 1..Len(orders) : j # order_id => after[j] = orders[j]
            /\ order_id <= Len(orders) =>
                LET old == orders[order_id].state
                    new == after[order_id]
                IN  CASE rmn = 0 /\ old \in {"SUBMITTED", "PARTIAL_FILLED", "CANCEL_REQUESTED"} ->
                            new.state = "FILLED"
                      [] rmn > 0 /\ old = "SUBMITTED" -> new.state = "PARTIAL_FILLED"
                      [] rmn > 0 /\ old = "PARTIAL_FILLED" ->
                            /\ new.state = "PARTIAL_FILLED"
                            /\ new.filled_quantity = tot
                            /\ new.remaining_quantity = rmn
                      [] OTHER -> new.state = old

\* The broker has reported a partial fill of a LIVE order: the order is
\* PARTIAL_FILLED and holds the quantities of the notification.
PartialFillReported ==
    /\ trade_mode = "LIVE"
    /\ \E i \in 1..Len(orders) : /\ orders[i].state = "PARTIAL_FILLED"
                                 /\ orders[i].filled_quantity > 0
                                 /\ orders[i].remaining_quantity > 0

\* C25: a subscribe request puts its pair in the active set and an
\* unsubscribe request takes it out, with or without a connected socket.
RequestsKeepActiveSet ==
    [][\A p \in Pairs :
            /\ WsSubscribe(p) => p \in ws'.subs
            /\ WsUnsubscribe(p) => p \notin ws'.subs]_vars

\* C26: once disconnect() has been called, at whatever point of connect(),
\* the client holds no open socket on which it replays subscriptions or
\* receives messages.
StoppedClientHoldsNoSocket ==
    ~ws.running => ~(ws.has_ws /\ ws.pc \in {"open", "replay"})

\* C27: a stock whose last VI event is RELEASED is COOLING while the timer
\* of that release sleeps and NORMAL once the timer has run out, in the
\* monitor and in the VI status the cache serves.
CoolingEndsEverywhere ==
    \A s \in Stocks :
        vim.last[s] = "2" =>
            LET timer == vim.tasks[s][Len(vim.tasks[s])]
                served == Snapshot(cache, s).vi_state
            IN  /\ timer = "sleeping" => vim.states[s] = "COOLING" /\ served = "COOLING"
                /\ timer = "done" => vim.states[s] = "NORMAL" /\ served = "NORMAL"

\* C28: while the time is before halt_until, evaluate_and_respond changes
\* no field of the drawdown state but last_evaluated, whatever PnL values
\* it is given.
HaltWindowFreezesState ==
    [][\A d \in DailyPnls, m \in MonthlyPnls, c \in CumulativePnls :
            (/\ dd.halt_until.some /\ dd_now < dd.halt_until.at
             /\ DdEvaluateAndRespond(d, m, c))
                => dd' = [dd EXCEPT !.last_evaluated = At(dd_now)]]_vars

\* A RED state evaluated again inside its halt window, after the call that
\* escalated to RED.
EvaluatedInsideRedHalt ==
    /\ dd.level = "RED" /\ dd.halt_until.some /\ dd.last_evaluated.some
    /\ dd.last_evaluated.at > dd.halt_until.at - RED_HALT_DAYS * TicksPerDay
    /\ dd.last_evaluated.at < dd.halt_until.at

\* The level the rules give, the first that matches: BLACK, RED, ORANGE,
\* YELLOW, GREEN, else NONE.
LevelByRule(d, m, c) ==
    CASE c <= -15 -> "BLACK"
      [] c > -15 /\ c <= -10 -> "RED"
      [] c > -10 /\ m <= -6 -> "ORANGE"
      [] c > -10 /\ m > -6 /\ d <= -3 -> "YELLOW"
      [] c > -10 /\ m > -6 /\ d > -3 /\ d <= -2 -> "GREEN"
      [] OTHER -> "NONE"

LevelsAsStated ==
    /\ dd.trading_halted <=> dd.level \in {"YELLOW", "ORANGE", "RED", "BLACK"}
    /\ dd.position_scale = 50 <=> dd.level = "GREEN"
    /\ dd.paper_mode_forced <=> dd.level \in {"RED", "BLACK"}
    /\ dd.level = "BLACK" => ~dd.halt_until.some

RecoveryOnlyAsStated ==
    [][/\ DdResetDaily =>
            IF dd.level \in {"GREEN", "YELLOW"} THEN dd'.level = "NONE" ELSE dd' = dd
       /\ DdResetMonthly =>
            IF dd.level = "ORANGE" THEN dd'.level = "NONE" ELSE dd' = dd
       /\ \A win \in BOOLEAN :
            DdRecordPaperTradeResult(win) =>
                IF dd.level # "RED" THEN dd' = dd
                ELSE IF win /\ dd.consecutive_paper_wins = 4 THEN dd'.level = "NONE"
                ELSE /\ dd'.level = "RED"
                     /\ dd'.consecutive_paper_wins =
                            IF win THEN dd.consecutive_paper_wins + 1 ELSE 0
       /\ (dd.level = "BLACK" /\ ~DdForceResume) =>
            dd'.level = "BLACK" /\ dd'.trading_halted]_vars

\* RED with four paper wins in a row recorded: one win from recovery.
FourPaperWinsAtRed ==
    dd.level = "RED" /\ dd.consecutive_paper_wins = 4 /\ dd.paper_mode_forced

\* C31: every approved BUY validation adds one pending reservation under a
\* key of its own: the number of reservations grows by one and their total
\* by the required amount, also for two approvals of one stock within the
\* same millisecond.
ApprovedBuyAddsReservation ==
    [][\A c \in 1..MaxMarginCalls :
            (/\ Returns(c)
             /\ mg_calls'[c].order_type = "BUY"
             /\ mg_calls'[c].ret = "ok")
                => /\ Len(mg'.pending) = Len(mg.pending) + 1
                   /\ SumAmounts(mg'.pending) =
                            SumAmounts(mg.pending) + mg_calls'[c].required]_vars

\* What check_pyramid_opportunity is stated to return for a position with a
\* positive average entry price: whether it offers an add-on.
OfferStated(current_stage, position, current_price) ==
    /\ position.order_type = "BUY"
    /\ current_price > position.avg_entry_price
    /\ current_stage + 1 < max_stages
    /\ (current_price - position.avg_entry_price) * 100
            >= profit_trigger_pct[current_stage + 1] * position.avg_entry_price

\* A check step answers as stated, for the positions that satisfy known:
\* the add-on is offered exactly when OfferStated holds, it names the next
\* stage with max(1, floor(total * ratio)) shares, and the stage and the
\* executed stages of the trade are as before.
CheckAnswersAsStated(known(_)) ==
    \A order_type \in PyramidOrderTypes, avg_entry_price \in PyramidEntryPrices,
       current_price \in PyramidPrices :
        LET position == [order_type |-> order_type, avg_entry_price |-> avg_entry_price,
                         total_planned_quantity |-> pyr.total]
            next_stage == pyr.current_stage + 1
        IN  (/\ PyCheckPyramidOpportunity(order_type, avg_entry_price, current_price)
             /\ known(position))
                => /\ pyr'.last.offered
                        <=> OfferStated(pyr.current_stage, position, current_price)
                   /\ pyr'.last.offered =>
                        /\ pyr'.last.stage = next_stage
                        /\ pyr'.last.quantity =
                              Max2(1, (pyr.total * stage_ratios[next_stage]) \div 100)
                   /\ pyr'.current_stage = pyr.current_stage
                   /\ pyr'.stages_executed = pyr.stages_executed

HasEntryPrice(position) == position.avg_entry_price > 0
HasEntryPriceAndPlan(position) ==
    position.avg_entry_price > 0 /\ position.total_planned_quantity >= 1

RECURSIVE SumFillQuantity(_)
SumFillQuantity(stages) ==
    IF stages = <<>> THEN 0 ELSE Head(stages).fill_quantity + SumFillQuantity(Tail(stages))

\* C40: for a trade planned with at least one share, the add-ons offered
\* and recorded stage after stage sum to at most the planned quantity.
AddOnsWithinPlan ==
    pyr.total >= 1 => SumFillQuantity(pyr.stages_executed) <= pyr.total

\* C33: an order that is CANCEL_REQUESTED or AMEND_REQUESTED reaches a
\* terminal state or is SUBMITTED again, also when the call to the broker
\* fails.
RequestedStateIsLeft ==
    \A i \in 1..MaxOrders :
        (i <= Len(orders) /\ orders[i].state \in {"CANCEL_REQUESTED", "AMEND_REQUESTED"})
            ~> (i <= Len(orders) /\ orders[i].state \in TERMINAL_STATES \cup {"SUBMITTED"})

\* Whether the history of an order has FILLED before CANCELLED.
CancelledAfterFilled(order) ==
    \E k, l \in 1..Len(order.history) :
        k < l /\ order.history[k] = "FILLED" /\ order.history[l] = "CANCELLED"

\* C34: when the broker answers a cancel request of cancel_order or of the
\* tracker for an order that a fill notification has made FILLED in the
\* meantime, the order is left as it is and cancel_order reports failure;
\* no order is ever CANCELLED after it was FILLED.
FillWinsOverCancel ==
    /\ [](\A i \in 1..Len(orders) : ~CancelledAfterFilled(orders[i]))
    /\ [][\A t \in om_tasks :
            (/\ t.kind \in {"cancel", "sweep_cancel"}
             /\ orders[t.id].state = "FILLED"
             /\ OmRestCancelReturned(t, TRUE) \/ TrRestCancelReturned(t, TRUE))
                => /\ orders'[t.id] = orders[t.id]
                   /\ ~CancelOrderEnd(orders, t.id, TRUE).success]_vars

\* An order filled while its cancel request was with the broker, after the
\* broker's answer has come.
CancelAnsweredAfterFill ==
    \E i \in 1..Len(orders) :
        /\ orders[i].state = "FILLED"
        /\ Len(orders[i].history) >= 2
        /\ orders[i].history[Len(orders[i].history) - 1] = "CANCEL_REQUESTED"
        /\ \A t \in om_tasks : t.id # i

\* C35: an order in a terminal state is never changed again, whatever is
\* asked for it: price, quantities, fill data and history stay as they are.
TerminalOrderIsFrozen ==
    [][\A i \in 1..Len(orders) :
            orders[i].state \in TERMINAL_STATES => orders'[i] = orders[i]]_vars


\* C36: after reset_daily the killed flag stays false until a check() made
\* after the reset has seen a breach; a shutdown task spawned before the reset
\* does not set it.
KilledOnlyAfterNewBreach ==
    ks.is_killed => ks_obs.breach_seen

\* C37: between two reset_daily calls the shutdown sequence runs at most
\* once: on_cancel_all and on_notify are each called at most one time.
ShutdownRunsOnce ==
    /\ ks_obs.cancel_runs <= 1
    /\ ks_obs.notify_runs <= 1

\* C38: a pair that is out of the active set, as it is after an unsubscribe
\* on a connected socket, enters the set again and has a subscribe message
\* sent for it only by a new subscribe request, also during a replay.
UnsubscribedStaysOut ==
    [][\A p \in Pairs :
            (/\ p \notin ws.subs
             /\ \/ p \in ws'.subs
                \/ p \in ws'.replayed /\ p \notin ws.replayed)
                => WsSubscribe(p)]_vars

\* The quantity a position map holds of a stock, 0 for a stock without entry.
HeldQuantity(positions, stock_code) ==
    IF stock_code \in DOMAIN positions THEN positions[stock_code].quantity ELSE 0

\* C39: in PAPER mode the order manager's open position and the paper
\* engine's paper position hold the same quantity of every stock.
PaperPositionsAgree ==
    trade_mode = "PAPER"
        => \A s \in Stocks :
                HeldQuantity(open_positions, s) = HeldQuantity(paper_positions, s)

==========================================================================
